---- MODULE Spec2Model ----
(***************************************************************************)
(* The audit collector of LOSER_v1 (src/main.py, class AuditServer): the   *)
(* durable store (in-memory trails and hosts, the pickle snapshot written  *)
(* through a temp file and a rename), the per-connection handlers and the  *)
(* operator's host and prune commands, as one state machine.               *)
(*                                                                         *)
(* Threads are the connection handlers and the operator's CLI thread.      *)
(* Python list objects are kept in a small heap, because the code appends  *)
(* to a list object it looked up earlier while prune rebinds the attribute *)
(* to a new list.                                                          *)
(***************************************************************************)
EXTENDS Integers, Sequences, FiniteSets, TLC

\* ------------------------------------------------------------ bounds

\* The longest trail list the model lets the store grow to.
MaxTrails == 2

\* ------------------------------------------------------------ universe

\* The connection-handler threads (one per accepted connection).
Handlers == {"h1", "h2"}

CliThread == "cli"

Threads == Handlers \cup {CliThread}

\* Python list objects that can be alive at once: the bound list, one per
\* handler holding a looked-up list, one being built by prune.
ObjIds == 0 .. (Cardinality(Handlers) + 1)

NoRef == -1

\* A key a JSON object does not have.
Missing == "<missing>"

\* An audit event as json.loads returns it: the keys the server reads.
Event(p, t, ts) == [project_name |-> p, event_type |-> t, timestamp |-> ts]

EvBoot == Event("A", "boot", "1700000000.0")

EvTrade == Event("B", "trade_opened", "1700000001.0")

EvBare == Event(Missing, Missing, Missing)

\* What stands for the fields of a JSON value that is no object.
NotObject == "<not an object>"

\* A JSON number as json.loads returns it: an int, which has no keys.
EvNumber == Event(NotObject, NotObject, NotObject)

Events == {EvBoot, EvTrade, EvBare}

\* isinstance(trail, dict): trail.get and trail[key] exist.
IsMapping(ev) == ev.project_name # NotObject

\* dict.get(key, default)
Get(ev, key, default) == IF ev[key] = Missing THEN default ELSE ev[key]

\* key in dict
HasKey(ev, key) == ev[key] # Missing

\* ------------------------------------------------------------ strings

\* Host addresses are sequences of characters, so that str.strip() is
\* computed and not assumed.
IsSpace(c) == c = " "

RECURSIVE LStrip(_)
LStrip(s) == IF s = <<>> THEN <<>>
             ELSE IF IsSpace(Head(s)) THEN LStrip(Tail(s)) ELSE s

RECURSIVE RStrip(_)
RStrip(s) == IF s = <<>> THEN <<>>
             ELSE IF IsSpace(s[Len(s)]) THEN RStrip(SubSeq(s, 1, Len(s) - 1)) ELSE s

\* str.strip()
Strip(s) == RStrip(LStrip(s))

\* ------------------------------------------------------------ pickle

\* A file is a sequence of pickle tokens; every token has the same shape.
Tok(op) == [op |-> op, ev |-> EvBare, s |-> <<>>]

EvTok(e) == [op |-> "EV", ev |-> e, s |-> <<>>]

StrTok(h) == [op |-> "STR", ev |-> EvBare, s |-> h]

PickleEvList(items) ==
    <<Tok("LIST")>> \o [i \in 1 .. Len(items) |-> EvTok(items[i])] \o <<Tok("END")>>

PickleStrList(items) ==
    <<Tok("LIST")>> \o [i \in 1 .. Len(items) |-> StrTok(items[i])] \o <<Tok("END")>>

\* pickle.dump of the legacy snapshot: a bare list of trails.
PickleLegacy(trails) == <<Tok("PROTO")>> \o PickleEvList(trails) \o <<Tok("STOP")>>

\* A bug a refactoring could introduce: the legacy form written again.
PickleDropsHosts(payload) == PickleLegacy(payload.trails)

\* pickle.dump(payload, f) for payload = {'trails': [...], 'hosts': [...]}.
Pickle(payload) ==
    <<Tok("PROTO"), Tok("DICT"), Tok("K_trails")>> \o PickleEvList(payload.trails)
        \o <<Tok("K_hosts")>> \o PickleStrList(payload.hosts)
        \o <<Tok("ENDDICT"), Tok("STOP")>>

\* The index of the first END token at or after i, 0 when there is none.
FindEnd(b, i) ==
    LET S == {j \in i .. Len(b) : b[j].op = "END"}
    IN  IF S = {} THEN 0 ELSE CHOOSE j \in S : \A k \in S : j <= k

\* err is the exception class of a failed load: "unpickling" stands for
\* UnpicklingError and EOFError, "other" for every other exception.
BadPickle == [ok |-> FALSE, kind |-> "none", trails |-> <<>>, hosts |-> <<>>,
              hasTrails |-> FALSE, hasHosts |-> FALSE, err |-> "unpickling"]

\* A string of the stream whose bytes are not UTF-8 (a damaged byte).
BadUtf8 == Tok("BADUTF8")

\* pickle.load raises UnicodeDecodeError on it.
Undecodable == [BadPickle EXCEPT !.err = "other"]

\* The entries of a pickled dict from position i on; acc is the value so far.
RECURSIVE ParseEntries(_, _, _)
ParseEntries(b, i, acc) ==
    IF i > Len(b) THEN BadPickle
    ELSE IF b[i].op = "ENDDICT" THEN (IF i = Len(b) THEN acc ELSE BadPickle)
    ELSE IF b[i].op \notin {"K_trails", "K_hosts"} THEN BadPickle
    ELSE IF i + 1 > Len(b) \/ b[i + 1].op # "LIST" THEN BadPickle
    ELSE LET j == FindEnd(b, i + 2)
             n == j - i - 2
         IN  IF j = 0 THEN BadPickle
             ELSE IF b[i].op = "K_trails"
                  THEN IF \E k \in 1 .. n : b[i + 1 + k].op # "EV" THEN BadPickle
                       ELSE ParseEntries(b, j + 1,
                              [acc EXCEPT !.hasTrails = TRUE,
                                          !.trails = [k \in 1 .. n |-> b[i + 1 + k].ev]])
                  ELSE IF \E k \in 1 .. n : b[i + 1 + k].op # "STR" THEN BadPickle
                       ELSE ParseEntries(b, j + 1,
                              [acc EXCEPT !.hasHosts = TRUE,
                                          !.hosts = [k \in 1 .. n |-> b[i + 1 + k].s]])

\* pickle.load(f): the value, or ok = FALSE with the exception class:
\* UnpicklingError / EOFError for an empty file, a truncated stream (the
\* frame is read whole before anything is decoded) or a stream that is no
\* pickle, UnicodeDecodeError for a whole stream with a damaged string.
Unpickle(bytes) ==
    IF Len(bytes) < 3 THEN BadPickle
    ELSE IF bytes[1].op # "PROTO" \/ bytes[Len(bytes)].op # "STOP" THEN BadPickle
    ELSE IF \E i \in 1 .. Len(bytes) : bytes[i] = BadUtf8 THEN Undecodable
    ELSE LET b == SubSeq(bytes, 2, Len(bytes) - 1)
         IN  IF b[1].op = "DICT"
             THEN ParseEntries(b, 2, [BadPickle EXCEPT !.ok = TRUE, !.kind = "dict"])
             ELSE IF b[1].op = "LIST"
             THEN LET n == Len(b) - 2
                  IN  IF b[Len(b)].op # "END" \/ (\E k \in 1 .. n : b[1 + k].op # "EV")
                      THEN BadPickle
                      ELSE [BadPickle EXCEPT !.ok = TRUE, !.kind = "list",
                                             !.trails = [k \in 1 .. n |-> b[1 + k].ev]]
             ELSE BadPickle

\* ------------------------------------------------------------ files

PickleLocation == "loser_audit.pickle"

TmpLocation == "loser_audit.pickle.tmp"

CorruptLocation == "loser_audit.pickle_T.corrupt"

Paths == {PickleLocation, TmpLocation, CorruptLocation}

Absent == [exists |-> FALSE, bytes |-> <<>>]

File(bytes) == [exists |-> TRUE, bytes |-> bytes]

\* os.rename(src, dst) of an existing src (POSIX: dst is replaced).
Rename(f, src, dst) ==
    IF src = dst THEN f ELSE [f EXCEPT ![dst] = f[src], ![src] = Absent]

\* A bug: the snapshot written in place, with no temp file.
SaveTargetInPlace == PickleLocation

\* The path save_audit_trails opens for writing.
SaveTarget == TmpLocation

\* ------------------------------------------------------------ load

\* A bug: the bare list of a legacy snapshot taken for an unknown type.
FromDataNoLegacy(u) ==
    IF u.kind = "dict" THEN [trails |-> u.trails, hosts |-> u.hosts]
    ELSE [trails |-> <<>>, hosts |-> <<>>]

\* Lines 54-62: the in-memory state from the unpickled data.
FromData(u) ==
    IF u.kind = "list" THEN [trails |-> u.trails, hosts |-> <<>>]
    ELSE IF u.kind = "dict" THEN [trails |-> u.trails, hosts |-> u.hosts]
    ELSE [trails |-> <<>>, hosts |-> <<>>]

EmptyStore == [trails |-> <<>>, hosts |-> <<>>]

\* load_audit_trails on file system f: the state it leaves in memory, the
\* file system it leaves, and whether it ends by raising.
RECURSIVE LoadAuditTrails(_)
LoadAuditTrails(f) ==
    IF ~f[PickleLocation].exists
    THEN [store |-> EmptyStore, fs |-> f, raised |-> FALSE]
    ELSE LET u == Unpickle(f[PickleLocation].bytes)
         IN  IF u.ok
             THEN [store |-> FromData(u), fs |-> f, raised |-> FALSE]
             ELSE IF u.err # "unpickling"
             THEN [store |-> EmptyStore, fs |-> f, raised |-> TRUE]
             ELSE LET f1 == Rename(f, PickleLocation, CorruptLocation)
                  IN  IF ~f1[TmpLocation].exists
                      THEN [store |-> EmptyStore, fs |-> f1, raised |-> TRUE]
                      ELSE LET r == LoadAuditTrails(Rename(f1, TmpLocation, PickleLocation))
                           IN  IF r.raised THEN r
                               ELSE [r EXCEPT !.fs = [r.fs EXCEPT ![CorruptLocation] = Absent]]

\* ------------------------------------------------------------ wire

\* A received chunk: bytes that decode as UTF-8 to a text (a sequence of
\* lexemes), or bytes that do not decode.
Bytes(text) == [utf8 |-> TRUE, text |-> text]

NoChunk == [utf8 |-> TRUE, text |-> <<"<none>">>]

EmptyRead == Bytes(<<>>)

CmdDump == Bytes(<<"dump_audit_trails">>)

CmdDumpAll == Bytes(<<"dump_audit_trails_all">>)

CmdCompact == Bytes(<<"dump_compact">>)

FilterPrefix == "dump_compact_with_filter:"

CmdCompactFilter == Bytes(<<FilterPrefix, "A">>)

\* Filtered dump commands: the prefix, then the characters of the suffix.
FilterSuffixes ==
    {<<>>, <<" ">>, <<",">>, <<"A">>, <<"B">>, <<"C">>, <<"A", ",", "B">>,
     <<" ", "A", " ", ",", ",">>, <<"unknown_project">>}

FilterChunks == {Bytes(<<FilterPrefix>> \o sfx) : sfx \in FilterSuffixes}

CmdProjects == Bytes(<<"available_projects">>)

JsonBoot == "{\"project_name\": \"A\", \"event_type\": \"boot\", \"timestamp\": 1700000000.0}"

JsonTrade == "{\"project_name\": \"B\", \"event_type\": \"trade_opened\", \"timestamp\": 1700000001.0}"

JsonBare == "{}"

JsonNumber == "5"

NotJson == "{\"project_name\": "

InvalidUtf8 == [utf8 |-> FALSE, text |-> <<"\\xff\\xfe">>]

EventChunks == {Bytes(<<JsonBoot>>), Bytes(<<JsonTrade>>), Bytes(<<JsonBare>>)}

\* Valid JSON that is no object.
NonObjectChunks == {Bytes(<<JsonNumber>>)}

CommandChunks == {CmdDump, CmdDumpAll, CmdCompact, CmdCompactFilter, CmdProjects}

MalformedChunks == {Bytes(<<NotJson>>), InvalidUtf8}

Chunks == CommandChunks \cup EventChunks \cup MalformedChunks \cup {EmptyRead}

\* json.loads(text): the value, or ok = FALSE for json.JSONDecodeError.
JsonLoads(text) ==
    IF text = <<JsonBoot>> THEN [ok |-> TRUE, value |-> EvBoot]
    ELSE IF text = <<JsonTrade>> THEN [ok |-> TRUE, value |-> EvTrade]
    ELSE IF text = <<JsonBare>> THEN [ok |-> TRUE, value |-> EvBare]
    ELSE IF text = <<JsonNumber>> THEN [ok |-> TRUE, value |-> EvNumber]
    ELSE [ok |-> FALSE, value |-> EvBare]

\* str.startswith on the decoded text.
StartsWith(text, prefix) == text # <<>> /\ Head(text) = prefix

NoReply == "<no reply>"

ReplyDumped == "Audit trails dumped"

ReplyDumpedAll == "All audit trails dumped"

ReplyCompact == "Compact audit dump created"

ReplyCompactFilter == "Compact audit dump with filters created"

ReplyProjects == "<json array of project names>"

ReplyInvalid == "Invalid JSON data received"

ReplyReceived == "Data received"

\* dump_audit_trails raises KeyError when a trail has no project_name, or
\* (todayOnly) no timestamp, and TypeError when a trail is no mapping;
\* fetch_remote_audits catches its own errors.
DumpAuditTrailsRaises(trails, todayOnly) ==
    \E i \in 1 .. Len(trails) :
        \/ ~IsMapping(trails[i])
        \/ ~HasKey(trails[i], "project_name")
        \/ todayOnly /\ ~HasKey(trails[i], "timestamp")

\* ------------------------------------------------------------ store helpers

\* A bug: the empty address let through.
IsEmptyHostNever(host) == FALSE

\* Line 197: if not host.
IsEmptyHost(host) == host = <<>>

\* A bug: the membership test left out.
HostPresentNever(host, hs) == FALSE

\* host in self._hosts
HostPresent(host, hs) == \E i \in 1 .. Len(hs) : hs[i] = host

\* A bug: remove by swapping the last entry into the hole.
RemoveFirstSwap(hs, host) ==
    LET i == CHOOSE k \in 1 .. Len(hs) : hs[k] = host /\ \A m \in 1 .. (k - 1) : hs[m] # host
    IN  IF i = Len(hs) THEN SubSeq(hs, 1, Len(hs) - 1)
        ELSE SubSeq(hs, 1, i - 1) \o <<hs[Len(hs)]>> \o SubSeq(hs, i + 1, Len(hs) - 1)

\* list.remove(host): the first occurrence goes, the rest keep their order.
RemoveFirst(hs, host) ==
    LET i == CHOOSE k \in 1 .. Len(hs) : hs[k] = host /\ \A m \in 1 .. (k - 1) : hs[m] # host
    IN  SubSeq(hs, 1, i - 1) \o SubSeq(hs, i + 1, Len(hs))

IsBoot(trail) == Get(trail, "event_type", Missing) = "boot"

\* [trail for trail in trails if trail.get('event_type') != 'boot']
WithoutBoots(trails) == SelectSeq(trails, LAMBDA t : ~IsBoot(t))

\* ------------------------------------------------------------ queries

UnknownProject == "unknown_project"

\* trail.get('project_name', 'unknown_project')
ProjectOf(trail) == Get(trail, "project_name", UnknownProject)

\* trail.get raises AttributeError on a stored value that is no mapping.
QueryRaises(trails) == \E i \in 1 .. Len(trails) : ~IsMapping(trails[i])

\* Lines 630-635: the set the loop of available_projects builds.
AvailableProjects(trails) == {ProjectOf(trails[i]) : i \in 1 .. Len(trails)}

\* Line 636: list(projects); the iteration order of a set is arbitrary.
Orderings(S) ==
    {q \in [1 .. Cardinality(S) -> S] : \A i, j \in 1 .. Cardinality(S) : i # j => q[i] # q[j]}

\* str.split(sep) on a sequence of characters: the segments between the
\* separators (one more segment than separators).
RECURSIVE SplitOn(_, _, _)
SplitOn(chars, sep, acc) ==
    IF chars = <<>> THEN <<acc>>
    ELSE IF Head(chars) = sep THEN <<acc>> \o SplitOn(Tail(chars), sep, <<>>)
    ELSE SplitOn(Tail(chars), sep, Append(acc, Head(chars)))

\* The string a sequence of characters spells; project names are single
\* lexemes here, anything longer is a name no event carries.
Spell(chars) == IF Len(chars) = 1 THEN chars[1] ELSE "<another name>"

\* Lines 149-150: the text after the first colon, split on commas, each
\* part stripped, the empty parts dropped.
ParseFilters(text) ==
    LET parts == SplitOn(Tail(text), ",", <<>>)
        kept == SelectSeq(parts, LAMBDA part : Strip(part) # <<>>)
    IN  [i \in 1 .. Len(kept) |-> Spell(Strip(kept[i]))]

InSeq(x, seq) == \E i \in 1 .. Len(seq) : seq[i] = x

\* x.get('timestamp', 0) as a number of seconds.
TimestampOf(trail) ==
    LET ts == Get(trail, "timestamp", "0")
    IN  IF ts = "0" THEN 0
        ELSE IF ts = "1700000000.0" THEN 1700000000
        ELSE 1700000001

\* sorted(trails, key=...): stable, by insertion from the left.
RECURSIVE InsertByTimestamp(_, _)
InsertByTimestamp(sorted, t) ==
    IF sorted = <<>> THEN <<t>>
    ELSE IF TimestampOf(sorted[Len(sorted)]) <= TimestampOf(t) THEN Append(sorted, t)
    ELSE Append(InsertByTimestamp(SubSeq(sorted, 1, Len(sorted) - 1), t), sorted[Len(sorted)])

RECURSIVE SortedByTimestamp(_)
SortedByTimestamp(trails) ==
    IF trails = <<>> THEN <<>>
    ELSE InsertByTimestamp(SortedByTimestamp(SubSeq(trails, 1, Len(trails) - 1)),
                           trails[Len(trails)])

\* The keys of a dict filled in this order: first occurrences.
RECURSIVE FirstOccurrences(_)
FirstOccurrences(names) ==
    IF names = <<>> THEN <<>>
    ELSE LET front == FirstOccurrences(SubSeq(names, 1, Len(names) - 1))
         IN  IF InSeq(names[Len(names)], front) THEN front
             ELSE Append(front, names[Len(names)])

\* Line 600: if project_filters and project_name not in project_filters.
\* (None and the empty list are both falsy: no filter.)
SkippedByFilter(trail, filters) == filters # <<>> /\ ~InSeq(ProjectOf(trail), filters)

\* Lines 597-616: the project blocks of compact_audit_dump.txt, in the
\* order they are written, each with its trails sorted by timestamp.
DumpAllCompact(trails, filters) ==
    LET kept == SelectSeq(trails, LAMBDA t : ~SkippedByFilter(t, filters))
        names == FirstOccurrences([i \in 1 .. Len(kept) |-> ProjectOf(kept[i])])
    IN  [i \in 1 .. Len(names) |->
            [project |-> names[i],
             trails |-> SortedByTimestamp(SelectSeq(kept, LAMBDA t : ProjectOf(t) = names[i]))]]

\* What a handler produced for its chunk: the array it sent or the dump
\* it wrote.
NoOutput == [made |-> "none", projects |-> <<>>, dump |-> <<>>]

\* ------------------------------------------------------------ framing

\* Bytes on the agent port are numbers 0 .. 255.
HeaderLen == 4

RecvMax == 4096

\* size.to_bytes(4, 'big')
ToBytes4(n) ==
    <<(n \div 16777216) % 256, (n \div 65536) % 256, (n \div 256) % 256, n % 256>>

\* int.from_bytes(header, 'big')
RECURSIVE FromBytes(_)
FromBytes(b) ==
    IF b = <<>> THEN 0 ELSE 256 * FromBytes(SubSeq(b, 1, Len(b) - 1)) + b[Len(b)]

\* The number a string of ASCII digits spells.
RECURSIVE Decimal(_)
Decimal(b) ==
    IF b = <<>> THEN 0 ELSE 10 * Decimal(SubSeq(b, 1, Len(b) - 1)) + (b[Len(b)] - 48)

LBrace == 123

RBrace == 125

Digits == {49, 50}

\* json.dumps(report).encode('utf-8') of the agent's report: the object
\* that carries the machine id (a digit).
EncodeReport(id) == <<LBrace, id, RBrace>>

\* The addresses machines can have, and the id of the agent at each.
HostNames == {<<"a">>, <<"b">>}

AgentId(host) == IF host = <<"a">> THEN 49 ELSE 50

\* Lines 91-98 of machine.py: the bytes the agent sends for a request.
ProcessConnection(request, id) ==
    IF request = "audit"
    THEN ToBytes4(Len(EncodeReport(id))) \o EncodeReport(id)
    ELSE <<48, 48, 48, 48>>

\* What _fetch_from_host returns: the sentinel or the decoded JSON value.
Sentinel == [kind |-> "unable to reach", val |-> 0]

\* json.loads(data.decode('utf-8')): an object, a number, or an error
\* (UnicodeDecodeError and json.JSONDecodeError both end in the sentinel).
DecodeJson(data) ==
    IF \E i \in 1 .. Len(data) : data[i] > 127 THEN Sentinel
    ELSE IF Len(data) = 3 /\ data[1] = LBrace /\ data[3] = RBrace /\ data[2] \in Digits
    THEN [kind |-> "object", val |-> data[2]]
    ELSE IF data # <<>> /\ \A i \in 1 .. Len(data) : data[i] \in Digits
    THEN [kind |-> "number", val |-> Decimal(data)]
    ELSE Sentinel

\* What _ping_host_timestamp returns.
PingError == [error |-> TRUE, ts |-> 0]

\* float(data.decode('utf-8')) and the measured round trip.
DecodeTimestamp(data) ==
    IF data # <<>> /\ \A i \in 1 .. Len(data) : data[i] \in Digits
    THEN [error |-> FALSE, ts |-> Decimal(data)]
    ELSE PingError

\* How the machine at an address behaves.
RemoteKinds ==
    {"agent", "clock", "refused", "silent", "short_header", "zero_length",
     "truncated", "stalled", "bad_json", "bad_utf8"}

\* The bytes a machine of that kind sends on a connection, in all. After
\* them a silent or stalled machine keeps the connection open and says
\* nothing (recv times out); the others close it (recv returns b'').
Stream(kind, host, request) ==
    IF kind = "agent" THEN ProcessConnection(request, AgentId(host))
    ELSE IF kind = "clock" THEN ToBytes4(2) \o <<49, 50>>
    ELSE IF kind = "short_header" THEN <<0, 0>>
    ELSE IF kind = "zero_length" THEN <<0, 0, 0, 0>>
    ELSE IF kind = "truncated" THEN ToBytes4(3) \o <<LBrace, 49>>
    ELSE IF kind = "stalled" THEN ToBytes4(3) \o <<LBrace>>
    ELSE IF kind = "bad_json" THEN ToBytes4(3) \o <<LBrace, 49, 49>>
    ELSE IF kind = "bad_utf8" THEN ToBytes4(3) \o <<LBrace, 255, RBrace>>
    ELSE <<>>

\* ------------------------------------------------------------ the agent's memory

\* The cap of the liveness window: 172_800 samples in the code (line 113),
\* scaled so that the heartbeat reaches it.
AliveCap == 3

\* The readings of time.time() one execution takes.
MaxClock == 7

\* machine_id is None
NoId == 0

\* The ids a caller supplies (the argument of main, the operator's answer
\* to the prompt).
MachineIds == Digits

\* data['last_alive']: missing, a list of timestamps, or a single float.
NoAlive == [kind |-> "missing", list |-> <<>>, num |-> 0]

AliveList(l) == [kind |-> "list", list |-> l, num |-> 0]

AliveFloat(x) == [kind |-> "float", list |-> <<>>, num |-> x]

\* The dict load_machine_cache returns when there is no cache file.
EmptyData == [machine_id |-> NoId, has_boots |-> FALSE, boot_times |-> <<>>, last_alive |-> NoAlive]

\* 'machine_id' in self.data
HasId(data) == data.machine_id # NoId

\* Lines 41-46: the id the machine runs under.
ChosenIdCaller(data, arg) == IF arg # NoId THEN arg ELSE data.machine_id

ChosenId(data, arg) == IF HasId(data) THEN data.machine_id ELSE arg

\* Lines 69-72: self.data['boot_times'].append(t), or the first list.
BootEvent(data, t) ==
    [data EXCEPT !.has_boots = TRUE,
                 !.boot_times = IF data.has_boots THEN Append(data.boot_times, t) ELSE <<t>>]

\* Lines 108-111: append raises AttributeError when last_alive is no list
\* (only KeyError is caught).
AppendRaises(alive) == alive.kind = "float"

AppendAlive(alive, t) ==
    IF alive.kind = "list" THEN AliveList(Append(alive.list, t)) ELSE AliveList(<<t>>)

\* Lines 113-114: list.pop(0) returns the removed element, and that is
\* what the assignment stores.
CapWindow(alive) ==
    IF Len(alive.list) > AliveCap THEN AliveFloat(Head(alive.list)) ELSE alive

\* machine_cache.pkl: absent, the whole pickle of a dict, or what an
\* interrupted dump left (open(..., 'wb') truncates before dump writes).
\* first is history: the id of the first dump that completed.
NoCache == [kind |-> "absent", data |-> EmptyData, first |-> NoId]

\* Lines 121-124. A truncated pickle does not load (EOFError,
\* UnpicklingError).
LoadRaises(c) == c.kind = "partial"

LoadMachineCache(c) == IF c.kind = "whole" THEN c.data ELSE EmptyData

\* Line 128.
OpenCache(c) == [c EXCEPT !.kind = "partial", !.data = EmptyData]

\* Line 129.
DumpCache(c, data) ==
    [kind |-> "whole", data |-> data,
     first |-> IF c.first = NoId THEN data.machine_id ELSE c.first]

\* ------------------------------------------------------------ the audit report

\* The 24 hours of last_24h_boots, in seconds.
DaySeconds == 86400

\* The days the machine's clock is let jump over.
MaxDays == 2

\* The processes of a process table.
MaxProcs == 2

\* 'pid': None
NoPid == 0

\* machine_config.json: the entries in the file's order, each with its
\* key and its filepath (name and description are copied to the report
\* as they are).
ConfigKeys == {"k1", "k2"}

FilePaths == {<<"x">>, <<"y">>}

Entry(key, path) == [key |-> key, filepath |-> path]

Configs ==
    {<<>>} \cup {<<Entry("k1", p)>> : p \in FilePaths}
           \cup {<<Entry("k1", p), Entry("k2", q)>> : p \in FilePaths, q \in FilePaths}

\* allProcesses(): the process table in its order; the pid of a process
\* is its place in the table, its command line a string.
CmdLines == {<<"x">>, <<"y">>, <<"z", "x">>}

ProcTables ==
    UNION {{[i \in 1 .. n |-> [pid |-> i, cmd |-> c[i]]] : c \in [1 .. n -> CmdLines]} :
              n \in 0 .. MaxProcs}

\* filepath in proc.cmd: a substring test.
Contains(cmd, path) ==
    \E i \in 0 .. Len(cmd) - Len(path) : SubSeq(cmd, i + 1, i + Len(path)) = path

\* Line 139: {conf[key]['filepath']: key for key in config_keys}. A dict
\* keeps a key at the place of its first insertion and the value of its
\* last.
FilepathToKey(conf) ==
    LET paths == FirstOccurrences([i \in 1 .. Len(conf) |-> conf[i].filepath])
        last(p) == CHOOSE i \in 1 .. Len(conf) :
                      /\ conf[i].filepath = p
                      /\ \A k \in 1 .. Len(conf) : conf[k].filepath = p => k <= i
    IN  [j \in 1 .. Len(paths) |-> [filepath |-> paths[j], key |-> conf[last(paths[j])].key]]

\* active_processes[key] = {...}
PutEntry(active, e) ==
    IF \E k \in 1 .. Len(active) : active[k].key = e.key
    THEN [k \in 1 .. Len(active) |-> IF active[k].key = e.key THEN e ELSE active[k]]
    ELSE Append(active, e)

\* Lines 142-149: the inner loop, for one process.
RECURSIVE ScanItems(_, _, _, _)
ScanItems(items, j, process, active) ==
    IF j > Len(items) THEN active
    ELSE ScanItems(items, j + 1, process,
                   IF Contains(process.cmd, items[j].filepath)
                   THEN PutEntry(active, [key |-> items[j].key, pid |-> process.pid,
                                          status |-> "running"])
                   ELSE active)

\* Lines 141-149: the loop over the process table.
RECURSIVE ScanProcs(_, _, _, _)
ScanProcs(procs, i, items, active) ==
    IF i > Len(procs) THEN active
    ELSE ScanProcs(procs, i + 1, items, ScanItems(items, 1, procs[i], active))

\* Lines 152-159: the entries no process was found for.
RECURSIVE AddNotRunning(_, _, _)
AddNotRunning(conf, i, active) ==
    IF i > Len(conf) THEN active
    ELSE AddNotRunning(conf, i + 1,
                       IF \E k \in 1 .. Len(active) : active[k].key = conf[i].key
                       THEN active
                       ELSE Append(active, [key |-> conf[i].key, pid |-> NoPid,
                                            status |-> "not running"]))

\* Lines 131-161.
GetActiveProcesses(conf, procs) ==
    AddNotRunning(conf, 1, ScanProcs(procs, 1, FilepathToKey(conf), <<>>))

\* No report generated yet. procs is history: the table the report's
\* scan saw.
NoReport ==
    [made |-> FALSE, machine_id |-> NoId, current_time |-> 0, this_session_boot_time |-> 0,
     last_24h_boots |-> 0, current_up_time_seconds |-> 0, active_processes |-> <<>>,
     procs |-> <<>>]

\* Lines 163-177, with the two readings of time.time() t1 and t2.
GenerateAuditReport(id, data, conf, procs, t1, t2) ==
    [made |-> TRUE,
     machine_id |-> id,
     current_time |-> t2,
     this_session_boot_time |-> data.boot_times[Len(data.boot_times)],
     last_24h_boots |-> Len(data.boot_times),
     current_up_time_seconds |-> t1 - data.boot_times[Len(data.boot_times)],
     active_processes |-> GetActiveProcesses(conf, procs),
     procs |-> procs]

\* No agent process: nothing in memory. now (seconds) and days are the
\* machine's clock, config_file is machine_config.json and last the
\* outcome of the latest start.
AgentDown ==
    [pc |-> "down", hb |-> "off", arg |-> NoId, machine_id |-> NoId,
     data |-> EmptyData, now |-> 0, last |-> "none",
     days |-> 0, config_file |-> <<>>, config |-> <<>>, report |-> NoReport]

\* What is left of agent a when its process ends.
Off(a) == [AgentDown EXCEPT !.now = a.now, !.days = a.days, !.config_file = a.config_file]

\* time.time(), before the reading advances it.
Clock(a) == a.days * DaySeconds + a.now

\* ------------------------------------------------------------ diagnose_connection

\* Line 500: the latency rule's threshold, in ms.
HighRtt == 150

\* Line 508, in Mbps.
SpeedDiffThreshold == 20

\* Line 512, in Mbps.
SlowSpeed == 10

\* What _ping_host_timestamp gave: the error marker or a round trip in ms.
PingResults ==
    {[error |-> TRUE, rtt_ms |-> 0]} \cup
    {[error |-> FALSE, rtt_ms |-> r] : r \in {40, 149, 150, 151, 200}}

\* speedtest's download bandwidth in bytes per second (5, 15, 20, 40 and
\* 80 Mbps: multiples of 125,000, for which bandwidth * 8 / 1_000_000 is
\* exact in floating point as well).
Bandwidths == {625000, 1875000, 2500000, 5000000, 10000000}

\* A speedtest result: None, or the tool's JSON with or without a
\* 'download' entry.
SpeedResults ==
    {[some |-> FALSE, has_download |-> FALSE, bandwidth |-> 0],
     [some |-> TRUE, has_download |-> FALSE, bandwidth |-> 0]} \cup
    {[some |-> TRUE, has_download |-> TRUE, bandwidth |-> b] : b \in Bandwidths}

\* The local side: speedtest_installed() and speedtest() (lines 399-412).
LocalStates ==
    {[installed |-> FALSE, result |-> r] : r \in {x \in SpeedResults : ~x.some}} \cup
    {[installed |-> TRUE, result |-> r] : r \in SpeedResults}

\* The reply of _fetch_speedtest_from_host: an error dict, or the remote's
\* {installed, result}.
RemoteStates ==
    {[error |-> TRUE, installed |-> FALSE, result |-> r] : r \in {x \in SpeedResults : ~x.some}} \cup
    {[error |-> FALSE, installed |-> i, result |-> r] : i \in BOOLEAN, r \in SpeedResults}

\* Lines 443 and 461: Mbps from bytes per second.
Download(result) ==
    IF result.has_download THEN (result.bandwidth * 8) \div 1000000 ELSE 0

\* Line 441.
RemoteHasData(rem) == ~rem.error /\ rem.installed /\ rem.result.some

\* Lines 447-453.
RemoteNetworkFault(rem) == ~RemoteHasData(rem) /\ rem.installed /\ ~rem.result.some

\* Line 460.
LocalHasData(loc) == loc.installed /\ loc.result.some

\* Lines 465-471.
LocalNetworkFault(loc) == ~LocalHasData(loc) /\ loc.installed /\ ~loc.result.some

Abs(x) == IF x < 0 THEN 0 - x ELSE x

\* Line 500.
HighLatency(rtt) == rtt > HighRtt

\* Lines 510-525: the comparison of the two download figures; "none" when
\* no branch is taken.
Compare(l, r) ==
    IF Abs(l - r) < SpeedDiffThreshold
    THEN IF (IF l < r THEN l ELSE r) < SlowSpeed THEN "similar_slow" ELSE "similar_adequate"
    ELSE IF l > r + SpeedDiffThreshold THEN "blame_remote"
    ELSE IF r > l + SpeedDiffThreshold THEN "blame_local"
    ELSE "none"

\* A bug: the latency rule tried before the network faults.
VerdictLatencyFirst(ping, loc, rem) ==
    IF ping.error THEN "unreachable"
    ELSE IF HighLatency(ping.rtt_ms) THEN "latency"
    ELSE IF LocalNetworkFault(loc) /\ RemoteNetworkFault(rem) THEN "both_faults"
    ELSE IF LocalNetworkFault(loc) THEN "local_fault"
    ELSE IF RemoteNetworkFault(rem) THEN "remote_fault"
    ELSE IF LocalHasData(loc) /\ RemoteHasData(rem)
         THEN Compare(Download(loc.result), Download(rem.result))
    ELSE IF LocalHasData(loc) THEN "blame_remote_unmeasured"
    ELSE IF RemoteHasData(rem) THEN "blame_local_unmeasured"
    ELSE "inconclusive"

\* Lines 478-541: the bottleneck analysis, the first rule that applies.
Verdict(ping, loc, rem) ==
    IF ping.error THEN "unreachable"
    ELSE IF LocalNetworkFault(loc) /\ RemoteNetworkFault(rem) THEN "both_faults"
    ELSE IF LocalNetworkFault(loc) THEN "local_fault"
    ELSE IF RemoteNetworkFault(rem) THEN "remote_fault"
    ELSE IF HighLatency(ping.rtt_ms) THEN "latency"
    ELSE IF LocalHasData(loc) /\ RemoteHasData(rem)
         THEN Compare(Download(loc.result), Download(rem.result))
    ELSE IF LocalHasData(loc) THEN "blame_remote_unmeasured"
    ELSE IF RemoteHasData(rem) THEN "blame_local_unmeasured"
    ELSE "inconclusive"

\* Nothing was diagnosed.
NoDiag ==
    [done |-> FALSE, host |-> <<>>, ping |-> [error |-> TRUE, rtt_ms |-> 0],
     loc |-> [installed |-> FALSE, result |-> [some |-> FALSE, has_download |-> FALSE, bandwidth |-> 0]],
     rem |-> [error |-> TRUE, installed |-> FALSE, result |-> [some |-> FALSE, has_download |-> FALSE, bandwidth |-> 0]],
     verdict |-> "none"]

\* ------------------------------------------------------------ state

VARIABLES
    proc,        \* "running" | "crashed" | "failed": the server process
    heap,        \* list object id -> its elements (the trail lists)
    cur,         \* the list object bound to self._full_audit_trails
    hosts,       \* self._hosts (one list object, mutated in place)
    lock,        \* the holder of self._write_lock, or "none"
    fs,          \* path -> file
    pc,          \* thread -> its position in the code
    ref,         \* thread -> the list object it holds a reference to
    chunk,       \* handler -> the chunk it is handling or handled last
    reply,       \* handler -> the reply it sent for that chunk
    cli,         \* the operator's current (or last) command
    saved,       \* the payload the last pickle.dump serialized
    lastCommit,  \* the payload of the last snapshot renamed into place
    track,       \* whether the operator's command history is recorded
    pre,         \* (track) the store when the operator's command began
    output,      \* handler -> what it produced for its chunk (array, dump)
    net,         \* host -> how the machine at that address behaves
    fetch,       \* the operator's fetch_remote_audits in progress
    agent,       \* the agent process (ic_audit/machine.py): its memory
    cache,       \* the agent's machine_cache.pkl
    diag         \* the operator's last diagnose_connection

vars == <<proc, heap, cur, hosts, lock, fs, pc, ref, chunk, reply, cli,
          saved, lastCommit, track, pre, output, net, fetch, agent, cache, diag>>

\* What the collector's store operations never touch.
remote == <<net, fetch, agent, cache, diag>>

IdleCli == [op |-> "none", arg |-> <<>>, report |-> "none", count |-> 0, wrote |-> FALSE]

NoPre == [hosts |-> <<>>, trails |-> <<>>, fs |-> [p \in Paths |-> Absent],
          prevOp |-> "none", prevArg |-> <<>>]

\* The current trail list.
Trails == heap[cur]

Live(c, r) == ({c} \cup {r[t] : t \in Threads}) \ {NoRef}

\* Unreferenced list objects are garbage.
Collect(h, c, r) == [o \in ObjIds |-> IF o \in Live(c, r) THEN h[o] ELSE <<>>]

FreshObj == CHOOSE o \in ObjIds : o \notin Live(cur, ref) /\ \A q \in ObjIds : q \notin Live(cur, ref) => o <= q

\* No machine answers at any address.
NoNet == [n \in HostNames |-> "refused"]

\* fetch_remote_audits not running: no thread in it, no host in hand, no
\* results.  called is the registry as it was when the call began.
IdleFetch ==
    [pc |-> "idle", by |-> "none", called |-> <<>>, i |-> 0, host |-> <<>>,
     phase |-> "audit", wire |-> <<>>, remaining |-> 0,
     data |-> <<>>, audit |-> Sentinel, results |-> <<>>, short |-> {}]

InitWith(store, f, tr) ==
    /\ proc = "running"
    /\ heap = [o \in ObjIds |-> IF o = 0 THEN store.trails ELSE <<>>]
    /\ cur = 0
    /\ hosts = store.hosts
    /\ lock = "none"
    /\ fs = f
    /\ pc = [t \in Threads |-> IF t = CliThread THEN "idle" ELSE "closed"]
    /\ ref = [t \in Threads |-> NoRef]
    /\ chunk = [h \in Handlers |-> NoChunk]
    /\ reply = [h \in Handlers |-> NoReply]
    /\ cli = IdleCli
    /\ saved = store
    /\ lastCommit = store
    /\ track = tr
    /\ pre = NoPre
    /\ output = [h \in Handlers |-> NoOutput]
    /\ fetch = IdleFetch

\* What lies outside the collector: no machine answers, no agent runs
\* here, nothing was diagnosed.
InitRemote ==
    /\ net = NoNet
    /\ agent = AgentDown
    /\ cache = NoCache
    /\ diag = NoDiag

\* After construction on a machine with no snapshot yet (lines 63-66).
Init == InitWith(EmptyStore, [p \in Paths |-> Absent], FALSE) /\ InitRemote

\* ------------------------------------------------------------ save_audit_trails

\* Line 105 and 111-114: take the write lock, build the payload (it holds
\* the list object bound to the attribute at this moment).
SaveLock(t) ==
    /\ proc = "running"
    /\ pc[t] = "s_lock"
    /\ lock = "none"
    /\ lock' = t
    /\ ref' = [ref EXCEPT ![t] = cur]
    /\ pc' = [pc EXCEPT ![t] = "s_open"]
    /\ UNCHANGED <<proc, heap, cur, hosts, fs, chunk, reply, cli, saved, lastCommit, track, pre>>
    /\ UNCHANGED <<output, remote>>

\* Line 105 while self._write_lock does not exist yet: AttributeError,
\* which the handler's except clause (line 165) does not catch.
SaveNoLock(t) ==
    /\ proc = "running"
    /\ pc[t] = "s_lock"
    /\ lock = "missing"
    /\ pc' = [pc EXCEPT ![t] = "died"]
    /\ UNCHANGED <<proc, heap, cur, hosts, lock, fs, ref, chunk, reply, cli, saved, lastCommit, track, pre>>
    /\ UNCHANGED <<output, remote>>

\* Line 117: open(pickle_location + '.tmp', 'wb') creates or truncates.
SaveOpen(t) ==
    /\ proc = "running"
    /\ pc[t] = "s_open"
    /\ fs' = [fs EXCEPT ![SaveTarget] = File(<<>>)]
    /\ cli' = IF t = CliThread THEN [cli EXCEPT !.wrote = TRUE] ELSE cli
    /\ pc' = [pc EXCEPT ![t] = "s_dump"]
    /\ UNCHANGED <<proc, heap, cur, hosts, lock, ref, chunk, reply, saved, lastCommit, track, pre>>
    /\ UNCHANGED <<output, remote>>

\* Line 118: pickle.dump(payload, f), and the file is closed.
SaveDump(t) ==
    /\ proc = "running"
    /\ pc[t] = "s_dump"
    /\ LET payload == [trails |-> heap[ref[t]], hosts |-> hosts]
       IN  /\ fs' = [fs EXCEPT ![SaveTarget] = File(Pickle(payload))]
           /\ saved' = payload
    /\ pc' = [pc EXCEPT ![t] = "s_rename"]
    /\ UNCHANGED <<proc, heap, cur, hosts, lock, ref, chunk, reply, cli, lastCommit, track, pre>>
    /\ UNCHANGED <<output, remote>>

\* Line 119: os.rename(pickle_location + '.tmp', pickle_location).
SaveRename(t) ==
    /\ proc = "running"
    /\ pc[t] = "s_rename"
    /\ fs' = Rename(fs, SaveTarget, PickleLocation)
    /\ lastCommit' = saved
    /\ pc' = [pc EXCEPT ![t] = "s_unlock"]
    /\ UNCHANGED <<proc, heap, cur, hosts, lock, ref, chunk, reply, cli, saved, track, pre>>
    /\ UNCHANGED <<output, remote>>

CliReport(op) ==
    IF op = "add_host" THEN "added"
    ELSE IF op = "remove_host" THEN "removed"
    ELSE "pruned"

\* What the operator's thread keeps of a finished command.
CliDone(c, report) == IF track THEN [c EXCEPT !.report = report] ELSE IdleCli

\* Line 120 and the end of the with block: the lock is released and
\* save_audit_trails returns to its caller.
SaveUnlock(t) ==
    /\ proc = "running"
    /\ pc[t] = "s_unlock"
    /\ lock' = "none"
    /\ ref' = [ref EXCEPT ![t] = NoRef]
    /\ heap' = Collect(heap, cur, ref')
    /\ pc' = [pc EXCEPT ![t] = IF t = CliThread THEN "idle" ELSE "ack"]
    /\ cli' = IF t = CliThread THEN CliDone(cli, CliReport(cli.op)) ELSE cli
    /\ UNCHANGED <<proc, cur, hosts, fs, chunk, reply, saved, lastCommit, track, pre>>
    /\ UNCHANGED <<output, remote>>

\* ------------------------------------------------------------ handle_client

\* handle_client run by the listener itself: the next accept waits for the
\* connection in hand to end.
AcceptSerial(h) ==
    /\ proc = "running"
    /\ pc[h] \in {"closed", "died"}
    /\ \A g \in Handlers \ {h} : pc[g] \in {"closed", "died"}
    /\ pc' = [pc EXCEPT ![h] = "await"]
    /\ chunk' = [chunk EXCEPT ![h] = NoChunk]
    /\ reply' = [reply EXCEPT ![h] = NoReply]
    /\ output' = [output EXCEPT ![h] = NoOutput]
    /\ UNCHANGED <<proc, heap, cur, hosts, lock, fs, ref, cli, saved, lastCommit, track, pre>>
    /\ UNCHANGED remote
\* Lines 126-128: a connection is accepted and gets its handler thread.
Accept(h) ==
    /\ proc = "running"
    /\ pc[h] \in {"closed", "died"}
    /\ pc' = [pc EXCEPT ![h] = "await"]
    /\ chunk' = [chunk EXCEPT ![h] = NoChunk]
    /\ reply' = [reply EXCEPT ![h] = NoReply]
    /\ output' = [output EXCEPT ![h] = NoOutput]
    /\ UNCHANGED <<proc, heap, cur, hosts, lock, fs, ref, cli, saved, lastCommit, track, pre>>
    /\ UNCHANGED remote

\* How many events are stored or about to be appended.
Pending == Len(Trails) + Cardinality({h \in Handlers : pc[h] = "append"})

\* A step of the handler that ends with a reply (or an exception) and
\* leaves the store alone.
Answer(h, c, to, r) ==
    /\ pc' = [pc EXCEPT ![h] = to]
    /\ chunk' = [chunk EXCEPT ![h] = c]
    /\ reply' = [reply EXCEPT ![h] = r]
    /\ output' = [output EXCEPT ![h] = NoOutput]
    /\ UNCHANGED <<proc, heap, cur, hosts, lock, fs, ref, cli, saved, lastCommit, track, pre>>

\* list.sort in place of sorted(): the dump puts the stored list in
\* timestamp order.
AnswerWithSort(h, c, r, o) ==
    /\ pc' = [pc EXCEPT ![h] = "replied"]
    /\ chunk' = [chunk EXCEPT ![h] = c]
    /\ reply' = [reply EXCEPT ![h] = r]
    /\ output' = [output EXCEPT ![h] = o]
    /\ heap' = [heap EXCEPT ![cur] = SortedByTimestamp(Trails)]
    /\ UNCHANGED <<proc, cur, hosts, lock, fs, ref, cli, saved, lastCommit, track, pre>>
\* A step of the handler that produces o (a dump, an array) and replies r.
AnswerWith(h, c, r, o) ==
    /\ pc' = [pc EXCEPT ![h] = "replied"]
    /\ chunk' = [chunk EXCEPT ![h] = c]
    /\ reply' = [reply EXCEPT ![h] = r]
    /\ output' = [output EXCEPT ![h] = o]
    /\ UNCHANGED <<proc, heap, cur, hosts, lock, fs, ref, cli, saved, lastCommit, track, pre>>

\* Lines 134-168: one recv and the classification of the chunk, up to the
\* point where the list object to append to has been looked up.
Recv(h, c) ==
    /\ proc = "running"
    /\ pc[h] = "await"
    /\ cur # NoRef
    /\ c \in (EventChunks \cup NonObjectChunks) => Pending < MaxTrails
    /\ IF c = CmdDump
       THEN IF DumpAuditTrailsRaises(Trails, TRUE)
            THEN Answer(h, c, "died", NoReply)
            ELSE Answer(h, c, "replied", ReplyDumped)
       ELSE IF c = CmdDumpAll
       THEN IF DumpAuditTrailsRaises(Trails, FALSE)
            THEN Answer(h, c, "died", NoReply)
            ELSE Answer(h, c, "replied", ReplyDumpedAll)
       ELSE IF c = CmdCompact
       THEN IF QueryRaises(Trails)
            THEN Answer(h, c, "died", NoReply)
            ELSE AnswerWith(h, c, ReplyCompact,
                     [NoOutput EXCEPT !.made = "dump", !.dump = DumpAllCompact(Trails, <<>>)])
       ELSE IF ~c.utf8
       THEN Answer(h, c, "died", NoReply)
       ELSE IF StartsWith(c.text, FilterPrefix)
       THEN IF QueryRaises(Trails)
            THEN Answer(h, c, "died", NoReply)
            ELSE AnswerWith(h, c, ReplyCompactFilter,
                     [NoOutput EXCEPT !.made = "dump",
                                      !.dump = DumpAllCompact(Trails, ParseFilters(c.text))])
       ELSE IF c = CmdProjects
       THEN IF QueryRaises(Trails)
            THEN Answer(h, c, "died", NoReply)
            ELSE \E q \in Orderings(AvailableProjects(Trails)) :
                     AnswerWith(h, c, ReplyProjects,
                         [NoOutput EXCEPT !.made = "projects", !.projects = q])
       ELSE IF c.text = <<>>
       THEN Answer(h, c, "closed", NoReply)
       ELSE IF ~JsonLoads(c.text).ok
       THEN Answer(h, c, "replied", ReplyInvalid)
       ELSE /\ pc' = [pc EXCEPT ![h] = "append"]
            /\ chunk' = [chunk EXCEPT ![h] = c]
            /\ ref' = [ref EXCEPT ![h] = cur]
            /\ UNCHANGED <<proc, heap, cur, hosts, lock, fs, reply, cli, saved, lastCommit, track,
                           pre, output>>
    /\ UNCHANGED remote

\* Lines 134-163 while self._full_audit_trails does not exist yet: reading
\* the attribute (to iterate it, or for .append, before json.loads runs)
\* raises AttributeError, and data.decode() of a command that is none of
\* the first three raises first if the bytes are no UTF-8; b'' matches no
\* command that reads it and ends the loop.
RecvUnbuilt(h, c) ==
    /\ proc = "running"
    /\ pc[h] = "await"
    /\ cur = NoRef
    /\ IF c = EmptyRead
       THEN Answer(h, c, "closed", NoReply)
       ELSE Answer(h, c, "died", NoReply)
    /\ UNCHANGED remote

\* list.insert(0, ...) in place of list.append.
AppendEventFront(h) ==
    /\ proc = "running"
    /\ pc[h] = "append"
    /\ ref' = [ref EXCEPT ![h] = NoRef]
    /\ heap' = Collect([heap EXCEPT ![ref[h]] = <<JsonLoads(chunk[h].text).value>> \o @],
                       cur, ref')
    /\ pc' = [pc EXCEPT ![h] = "s_lock"]
    /\ UNCHANGED <<proc, cur, hosts, lock, fs, chunk, reply, cli, saved, lastCommit, track, pre>>
    /\ UNCHANGED <<output, remote>>
\* Line 163: list.append on the list object looked up before json.loads ran.
AppendEvent(h) ==
    /\ proc = "running"
    /\ pc[h] = "append"
    /\ ref' = [ref EXCEPT ![h] = NoRef]
    /\ heap' = Collect([heap EXCEPT ![ref[h]] = Append(@, JsonLoads(chunk[h].text).value)],
                       cur, ref')
    /\ pc' = [pc EXCEPT ![h] = "s_lock"]
    /\ UNCHANGED <<proc, cur, hosts, lock, fs, chunk, reply, cli, saved, lastCommit, track, pre>>
    /\ UNCHANGED <<output, remote>>

\* Lines 169-170: sendall(b"Data received").
Ack(h) ==
    /\ proc = "running"
    /\ pc[h] = "ack"
    /\ pc' = [pc EXCEPT ![h] = "replied"]
    /\ reply' = [reply EXCEPT ![h] = ReplyReceived]
    /\ UNCHANGED <<proc, heap, cur, hosts, lock, fs, ref, chunk, cli, saved, lastCommit, track, pre>>
    /\ UNCHANGED <<output, remote>>

\* continue: back to recv on the same connection.
Continue(h) ==
    /\ proc = "running"
    /\ pc[h] = "replied"
    /\ pc' = [pc EXCEPT ![h] = "await"]
    /\ chunk' = [chunk EXCEPT ![h] = NoChunk]
    /\ reply' = [reply EXCEPT ![h] = NoReply]
    /\ output' = [output EXCEPT ![h] = NoOutput]
    /\ UNCHANGED <<proc, heap, cur, hosts, lock, fs, ref, cli, saved, lastCommit, track, pre>>
    /\ UNCHANGED remote

\* ------------------------------------------------------------ operator

\* The addresses the operator types.
HostInputs ==
    IF track
    THEN {<<>>, <<" ">>, <<"a">>, <<" ", "a">>, <<"b">>, <<"b", " ">>, <<"c">>}
    ELSE {<<" ">>, <<"a">>, <<" ", "a">>, <<"b">>}

\* The store as the operator's command finds it.
Snapshot(op, arg) ==
    IF track
    THEN [hosts |-> hosts, trails |-> Trails, fs |-> fs, prevOp |-> cli.op, prevArg |-> cli.arg]
    ELSE NoPre

StartCli(op, arg) == [op |-> op, arg |-> arg, report |-> "none", count |-> 0, wrote |-> FALSE]

\* Lines 195-205.
AddHost(raw) ==
    /\ proc = "running"
    /\ pc[CliThread] = "idle"
    /\ pre' = Snapshot("add_host", raw)
    /\ LET host == Strip(raw)
       IN  IF IsEmptyHost(host)
           THEN /\ cli' = CliDone(StartCli("add_host", raw), "empty ignored")
                /\ UNCHANGED <<hosts, pc>>
           ELSE IF ~HostPresent(host, hosts)
           THEN /\ hosts' = Append(hosts, host)
                /\ cli' = StartCli("add_host", raw)
                /\ pc' = [pc EXCEPT ![CliThread] = "s_lock"]
           ELSE /\ cli' = CliDone(StartCli("add_host", raw), "already present")
                /\ UNCHANGED <<hosts, pc>>
    /\ UNCHANGED <<proc, heap, cur, lock, fs, ref, chunk, reply, saved, lastCommit, track>>
    /\ UNCHANGED <<output, remote>>

\* Lines 207-214.
RemoveHost(raw) ==
    /\ proc = "running"
    /\ pc[CliThread] = "idle"
    /\ pre' = Snapshot("remove_host", raw)
    /\ LET host == Strip(raw)
       IN  IF HostPresent(host, hosts)
           THEN /\ hosts' = RemoveFirst(hosts, host)
                /\ cli' = StartCli("remove_host", raw)
                /\ pc' = [pc EXCEPT ![CliThread] = "s_lock"]
           ELSE /\ cli' = CliDone(StartCli("remove_host", raw), "not found")
                /\ UNCHANGED <<hosts, pc>>
    /\ UNCHANGED <<proc, heap, cur, lock, fs, ref, chunk, reply, saved, lastCommit, track>>
    /\ UNCHANGED <<output, remote>>

\* Line 580: original_count = len(self._full_audit_trails).
PruneLen ==
    /\ proc = "running"
    /\ pc[CliThread] = "idle"
    /\ pre' = Snapshot("prune", <<>>)
    /\ cli' = [StartCli("prune", <<>>) EXCEPT !.count = Len(Trails)]
    /\ pc' = [pc EXCEPT ![CliThread] = "p_comp"]
    /\ UNCHANGED <<proc, heap, cur, hosts, lock, fs, ref, chunk, reply, saved, lastCommit, track>>
    /\ UNCHANGED <<output, remote>>

\* Line 581, right-hand side: the comprehension builds a new list.
PruneComp ==
    /\ proc = "running"
    /\ pc[CliThread] = "p_comp"
    /\ IF QueryRaises(Trails)
       THEN \* trail.get raises AttributeError: the CLI loop ends (line 848).
            /\ pc' = [pc EXCEPT ![CliThread] = "died"]
            /\ UNCHANGED <<ref, heap>>
       ELSE /\ ref' = [ref EXCEPT ![CliThread] = FreshObj]
            /\ heap' = [heap EXCEPT ![FreshObj] = WithoutBoots(Trails)]
            /\ pc' = [pc EXCEPT ![CliThread] = "p_store"]
    /\ UNCHANGED <<proc, cur, hosts, lock, fs, chunk, reply, cli, saved, lastCommit, track, pre>>
    /\ UNCHANGED <<output, remote>>

\* Line 581, the assignment: the attribute is rebound to the new list.
PruneStore ==
    /\ proc = "running"
    /\ pc[CliThread] = "p_store"
    /\ cur' = ref[CliThread]
    /\ ref' = [ref EXCEPT ![CliThread] = NoRef]
    /\ heap' = Collect(heap, cur', ref')
    /\ pc' = [pc EXCEPT ![CliThread] = "p_count"]
    /\ UNCHANGED <<proc, hosts, lock, fs, chunk, reply, cli, saved, lastCommit, track, pre>>
    /\ UNCHANGED <<output, remote>>

\* Lines 582-587: pruned_count and the decision to save.
PruneCount ==
    /\ proc = "running"
    /\ pc[CliThread] = "p_count"
    /\ IF cli.count - Len(Trails) > 0
       THEN /\ pc' = [pc EXCEPT ![CliThread] = "s_lock"]
            /\ cli' = cli
       ELSE /\ pc' = [pc EXCEPT ![CliThread] = "idle"]
            /\ cli' = CliDone(cli, "no boots")
    /\ UNCHANGED <<proc, heap, cur, hosts, lock, fs, ref, chunk, reply, saved, lastCommit, track, pre>>
    /\ UNCHANGED <<output, remote>>

\* ------------------------------------------------------------ fetch_remote_audits

\* The collector's variables a fetch leaves alone.
storeVars == <<proc, heap, cur, hosts, lock, fs, ref, chunk, reply, cli, saved, lastCommit,
               track, pre, output>>

\* Line 794: the operator's fetch command calls fetch_remote_audits;
\* line 346: results = {}.
FetchStart ==
    /\ proc = "running"
    /\ pc[CliThread] = "idle"
    /\ fetch.pc \in {"idle", "done"}
    /\ pc' = [pc EXCEPT ![CliThread] = "fetch"]
    /\ fetch' = [IdleFetch EXCEPT !.pc = "loop", !.i = 1, !.by = CliThread, !.called = hosts]
    /\ UNCHANGED <<storeVars, net, agent, cache, diag>>

\* Line 347: for host in self._hosts (the list iterator keeps an index
\* into the list as it is now, and host is bound to the element there);
\* line 354: return results to the caller, the operator's command or
\* dump_audit_trails in a handler.
FetchLoop ==
    /\ proc = "running"
    /\ fetch.pc = "loop"
    /\ IF fetch.i > Len(hosts)
       THEN /\ fetch' = [fetch EXCEPT !.pc = "done"]
            /\ pc' = [pc EXCEPT ![fetch.by] = IF fetch.by = CliThread THEN "idle" ELSE "dumped"]
       ELSE /\ fetch' = [fetch EXCEPT !.pc = "open", !.phase = "audit", !.host = hosts[fetch.i]]
            /\ pc' = pc
    /\ UNCHANGED <<storeVars, net, agent, cache, diag>>

\* The request each of the two calls sends.
RequestOf(phase) == IF phase = "audit" THEN "audit" ELSE "timestamp"

\* results[host] = {...}: a dict keeps one entry per key.
DictSet(results, entry) ==
    IF \E k \in 1 .. Len(results) : results[k].host = entry.host
    THEN [k \in 1 .. Len(results) |->
             IF results[k].host = entry.host THEN entry ELSE results[k]]
    ELSE Append(results, entry)

\* A bug: an exception of one host ends the whole loop.
EndCallAborts(f, failed, value) ==
    IF failed THEN [f EXCEPT !.pc = "loop", !.i = Len(hosts) + 1]
    ELSE IF f.phase = "audit"
    THEN [f EXCEPT !.pc = "open", !.phase = "ping", !.audit = value,
                   !.wire = <<>>, !.data = <<>>, !.remaining = 0]
    ELSE [f EXCEPT !.pc = "loop", !.i = f.i + 1, !.wire = <<>>, !.data = <<>>,
                   !.remaining = 0, !.audit = Sentinel,
                   !.results = DictSet(f.results,
                       [host |-> f.host, audit |-> f.audit, ping |-> value])]

\* _fetch_from_host or _ping_host_timestamp returns value (failed: by one
\* of its error returns or its except clause): after the audit the ping
\* follows (line 349), after the ping the entry is stored (lines 350-353).
EndCall(f, failed, value) ==
    IF f.phase = "audit"
    THEN [f EXCEPT !.pc = "open", !.phase = "ping", !.audit = value,
                   !.wire = <<>>, !.data = <<>>, !.remaining = 0]
    ELSE [f EXCEPT !.pc = "loop", !.i = f.i + 1, !.wire = <<>>, !.data = <<>>,
                   !.remaining = 0, !.audit = Sentinel,
                   !.results = DictSet(f.results,
                       [host |-> f.host, audit |-> f.audit, ping |-> value])]

\* The error value of the call in progress.
Failure(phase) == IF phase = "audit" THEN Sentinel ELSE PingError

\* The value the call in progress decodes from a complete payload.
Decode(phase, data) == IF phase = "audit" THEN DecodeJson(data) ELSE DecodeTimestamp(data)

\* Lines 286-287 (and 251-252): create_connection and sendall; a refused
\* connection raises and the except clause returns the error value.
FetchOpen ==
    /\ proc = "running"
    /\ fetch.pc = "open"
    /\ LET host == fetch.host
           kind == net[host]
       IN  IF kind = "refused"
           THEN fetch' = EndCall(fetch, TRUE, Failure(fetch.phase))
           ELSE fetch' = [fetch EXCEPT !.pc = "header",
                                       !.wire = Stream(kind, host, RequestOf(fetch.phase))]
    /\ UNCHANGED <<storeVars, pc, net, agent, cache, diag>>

Min(a, b) == IF a < b THEN a ELSE b

\* Lines 289-294: header = s.recv(4), which returns what has arrived, at
\* most 4 bytes; b'' when the peer closed; socket.timeout when it hangs.
FetchHeader ==
    /\ proc = "running"
    /\ fetch.pc = "header"
    /\ IF fetch.wire = <<>>
       THEN fetch' = EndCall(fetch, TRUE, Failure(fetch.phase))
       ELSE \E k \in 1 .. Min(HeaderLen, Len(fetch.wire)) :
              LET header == SubSeq(fetch.wire, 1, k)
                  rest == SubSeq(fetch.wire, k + 1, Len(fetch.wire))
                  size == FromBytes(header)
              IN  IF Len(header) < HeaderLen
                  THEN fetch' = [EndCall(fetch, TRUE, Failure(fetch.phase)) EXCEPT
                                    !.short = IF rest # <<>>
                                              THEN @ \cup {<<fetch.host, fetch.phase>>}
                                              ELSE @]
                  ELSE IF size <= 0
                  THEN fetch' = EndCall(fetch, TRUE, Failure(fetch.phase))
                  ELSE fetch' = [fetch EXCEPT !.pc = "payload", !.wire = rest,
                                              !.remaining = size, !.data = <<>>]
    /\ UNCHANGED <<storeVars, pc, net, agent, cache, diag>>

\* Lines 295-308: one turn of the loop that reads the payload, and after
\* the last turn the decoding.
FetchPayload ==
    /\ proc = "running"
    /\ fetch.pc = "payload"
    /\ IF fetch.wire = <<>>
       THEN \* b'' and remaining != 0, or socket.timeout
            fetch' = EndCall(fetch, TRUE, Failure(fetch.phase))
       ELSE \E k \in 1 .. Min(Min(RecvMax, fetch.remaining), Len(fetch.wire)) :
              LET data == fetch.data \o SubSeq(fetch.wire, 1, k)
                  rest == SubSeq(fetch.wire, k + 1, Len(fetch.wire))
              IN  IF fetch.remaining - k > 0
                  THEN fetch' = [fetch EXCEPT !.wire = rest, !.data = data,
                                              !.remaining = fetch.remaining - k]
                  ELSE fetch' = EndCall(fetch, Decode(fetch.phase, data) = Failure(fetch.phase),
                                        Decode(fetch.phase, data))
    /\ UNCHANGED <<storeVars, pc, net, agent, cache, diag>>

\* Lines 135-136, 173-187: dump_audit_trails is received, the trails are
\* grouped (a trail without the keys read raises) and fetch_remote_audits
\* is called, in the handler's thread.
DumpStart(h) ==
    /\ proc = "running"
    /\ pc[h] = "await"
    /\ fetch.pc \in {"idle", "done"}
    /\ chunk' = [chunk EXCEPT ![h] = CmdDump]
    /\ IF DumpAuditTrailsRaises(Trails, TRUE)
       THEN /\ pc' = [pc EXCEPT ![h] = "died"]
            /\ fetch' = fetch
       ELSE /\ pc' = [pc EXCEPT ![h] = "fetch"]
            /\ fetch' = [IdleFetch EXCEPT !.pc = "loop", !.i = 1, !.by = h, !.called = hosts]
    /\ UNCHANGED <<proc, heap, cur, hosts, lock, fs, ref, reply, cli, saved, lastCommit, track, pre>>
    /\ UNCHANGED <<output, net, agent, cache, diag>>

\* Lines 189-192 and 137: the dictionary is written to
\* dumped_audit_trails.json and the handler replies.
DumpEnd(h) ==
    /\ proc = "running"
    /\ pc[h] = "dumped"
    /\ pc' = [pc EXCEPT ![h] = "replied"]
    /\ reply' = [reply EXCEPT ![h] = ReplyDumped]
    /\ UNCHANGED <<proc, heap, cur, hosts, lock, fs, ref, chunk, cli, saved, lastCommit, track, pre>>
    /\ UNCHANGED <<output, remote>>

FetchStep == FetchStart \/ FetchLoop \/ FetchOpen \/ FetchHeader \/ FetchPayload

\* ------------------------------------------------------------ construction

\* __init__ step by step, the listener thread already accepting (line 39):
\* lines 40-41, self._full_audit_trails = [] and self._hosts = [].
ConstructLists ==
    /\ proc = "running"
    /\ pc[CliThread] = "c_lists"
    /\ cur' = FreshObj
    /\ heap' = [heap EXCEPT ![FreshObj] = <<>>]
    /\ hosts' = <<>>
    /\ pc' = [pc EXCEPT ![CliThread] = "c_load"]
    /\ UNCHANGED <<proc, lock, fs, ref, chunk, reply, cli, saved, lastCommit, track, pre>>
    /\ UNCHANGED <<output, remote>>

\* Line 42: load_audit_trails binds the attributes to the lists it read
\* (or to new empty lists); the list bound before is dropped.
ConstructLoad ==
    /\ proc = "running"
    /\ pc[CliThread] = "c_load"
    /\ LET r == LoadAuditTrails(fs)
       IN  /\ proc' = IF r.raised THEN "failed" ELSE "running"
           /\ fs' = r.fs
           /\ cur' = FreshObj
           /\ heap' = Collect([heap EXCEPT ![FreshObj] = r.store.trails], FreshObj, ref)
           /\ hosts' = r.store.hosts
    /\ pc' = [pc EXCEPT ![CliThread] = "c_lock"]
    /\ UNCHANGED <<lock, ref, chunk, reply, cli, saved, lastCommit, track, pre>>
    /\ UNCHANGED <<output, remote>>

\* Line 43: self._write_lock = threading.Lock(); the constructor returns.
ConstructLock ==
    /\ proc = "running"
    /\ pc[CliThread] = "c_lock"
    /\ lock' = "none"
    /\ pc' = [pc EXCEPT ![CliThread] = "idle"]
    /\ UNCHANGED <<proc, heap, cur, hosts, fs, ref, chunk, reply, cli, saved, lastCommit, track, pre>>
    /\ UNCHANGED <<output, remote>>

\* ------------------------------------------------------------ crash and restart

\* Proper prefixes of what pickle.dump was writing: nothing yet, half of
\* it, all but the last opcode.
Prefixes(bytes) == {SubSeq(bytes, 1, k) : k \in {0, Len(bytes) \div 2, Len(bytes) - 1}}

\* The process dies (kill, power cut of the process, unhandled error of the
\* main thread): memory is lost, the files stay as they are, a dump in
\* progress leaves a prefix of its output.
Crash ==
    /\ proc = "running"
    /\ proc' = "crashed"
    /\ IF \E t \in Threads : pc[t] = "s_dump"
       THEN LET t == CHOOSE t \in Threads : pc[t] = "s_dump"
            IN  \E b \in Prefixes(Pickle([trails |-> heap[ref[t]], hosts |-> hosts])) :
                    fs' = [fs EXCEPT ![SaveTarget] = File(b)]
       ELSE fs' = fs
    /\ heap' = [o \in ObjIds |-> <<>>]
    /\ cur' = 0
    /\ hosts' = <<>>
    /\ lock' = "none"
    /\ pc' = [t \in Threads |-> IF t = CliThread THEN "idle" ELSE "closed"]
    /\ ref' = [t \in Threads |-> NoRef]
    /\ chunk' = [h \in Handlers |-> NoChunk]
    /\ reply' = [h \in Handlers |-> NoReply]
    /\ output' = [h \in Handlers |-> NoOutput]
    /\ cli' = IdleCli
    /\ saved' = lastCommit
    /\ pre' = NoPre
    /\ fetch' = IdleFetch
    /\ UNCHANGED <<lastCommit, track, net, agent, cache, diag>>

\* Lines 40-43 of a new process: the store is loaded from the snapshot.
Restart ==
    /\ proc = "crashed"
    /\ LET r == LoadAuditTrails(fs)
       IN  /\ proc' = IF r.raised THEN "failed" ELSE "running"
           /\ fs' = r.fs
           /\ heap' = [o \in ObjIds |-> IF o = 0 THEN r.store.trails ELSE <<>>]
           /\ hosts' = r.store.hosts
    /\ UNCHANGED <<cur, lock, pc, ref, chunk, reply, cli, saved, lastCommit, track, pre>>
    /\ UNCHANGED <<output, remote>>

\* ------------------------------------------------------------ the agent (ic_audit/machine.py)

collector == <<proc, heap, cur, hosts, lock, fs, pc, ref, chunk, reply, cli,
               saved, lastCommit, track, pre, output>>

\* Lines 39-48 up to the write: the cache is loaded and the id chosen. A
\* cache that does not load ends the process (main catches ValueError
\* only); no stored id and no id supplied raises ValueError, and main asks
\* the operator.
Construct(arg) ==
    IF LoadRaises(cache)
    THEN agent' = [Off(agent) EXCEPT !.arg = arg, !.last = "load_error"]
    ELSE LET data == LoadMachineCache(cache)
         IN  IF ~HasId(data) /\ arg = NoId
             THEN agent' = [Off(agent) EXCEPT !.pc = "prompt", !.last = "no_id"]
             ELSE agent' = [Off(agent) EXCEPT
                               !.arg = arg,
                               !.last = "ok",
                               !.machine_id = ChosenId(data, arg),
                               !.data = IF HasId(data) THEN data
                                        ELSE [data EXCEPT !.machine_id = arg],
                               !.pc = IF HasId(data) THEN "config" ELSE "id_open"]

\* main(machine_id), lines 180-182.
AgentStart(arg) ==
    /\ agent.pc = "down"
    /\ Construct(arg)
    /\ UNCHANGED <<collector, net, fetch, cache, diag>>

\* Lines 188-189: the operator types an id and main runs again.
AgentPrompt(i) ==
    /\ agent.pc = "prompt"
    /\ Construct(i)
    /\ UNCHANGED <<collector, net, fetch, cache, diag>>

\* Line 128 of the writes of __init__ and _boot_event.
AgentWriteOpen ==
    /\ agent.pc \in {"id_open", "boot_open"}
    /\ cache' = OpenCache(cache)
    /\ agent' = [agent EXCEPT !.pc = IF agent.pc = "id_open" THEN "id_dump" ELSE "boot_dump"]
    /\ UNCHANGED <<collector, net, fetch, diag>>

\* Line 129 of the same writes.
AgentWriteDump ==
    /\ agent.pc \in {"id_dump", "boot_dump"}
    /\ cache' = DumpCache(cache, agent.data)
    /\ agent' = [agent EXCEPT !.pc = IF agent.pc = "id_dump" THEN "config" ELSE "ready"]
    /\ UNCHANGED <<collector, net, fetch, diag>>

\* Lines 53 and 59-66: machine_config.json is read. A missing file ends
\* the process; a file that is no JSON raises a ValueError
\* (JSONDecodeError), which main answers with the prompt.
AgentConfig(found) ==
    /\ agent.pc = "config"
    /\ agent' = CASE found = "ok" -> [agent EXCEPT !.pc = "boot", !.config = agent.config_file]
                  [] found = "missing" -> [Off(agent) EXCEPT !.last = "no_config"]
                  [] OTHER -> [Off(agent) EXCEPT !.pc = "prompt", !.last = "bad_config"]
    /\ UNCHANGED <<collector, net, fetch, cache, diag>>

\* Lines 68-72.
AgentBoot ==
    /\ agent.pc = "boot"
    /\ agent.now < MaxClock
    /\ agent' = [agent EXCEPT !.now = @ + 1,
                              !.data = BootEvent(@, Clock(agent) + 1),
                              !.pc = "boot_open"]
    /\ UNCHANGED <<collector, net, fetch, cache, diag>>

\* Line 77: spin_socket_server starts the heartbeat thread and serves.
AgentSpin ==
    /\ agent.pc = "ready"
    /\ agent' = [agent EXCEPT !.pc = "serve", !.hb = "sleep"]
    /\ UNCHANGED <<collector, net, fetch, cache, diag>>

\* Lines 107-111: one second later the heartbeat appends the time. An
\* exception other than KeyError ends the thread.
HbAppend ==
    /\ agent.hb = "sleep"
    /\ agent.now < MaxClock
    /\ IF AppendRaises(agent.data.last_alive)
       THEN agent' = [agent EXCEPT !.now = @ + 1, !.hb = "dead"]
       ELSE agent' = [agent EXCEPT !.now = @ + 1,
                                   !.data.last_alive = AppendAlive(@, Clock(agent) + 1),
                                   !.hb = "appended"]
    /\ UNCHANGED <<collector, net, fetch, cache, diag>>

\* Lines 113-114.
HbCap ==
    /\ agent.hb = "appended"
    /\ agent' = [agent EXCEPT !.data.last_alive = CapWindow(@), !.hb = "open"]
    /\ UNCHANGED <<collector, net, fetch, cache, diag>>

\* Line 116, the open of write_machine_cache.
HbOpen ==
    /\ agent.hb = "open"
    /\ cache' = OpenCache(cache)
    /\ agent' = [agent EXCEPT !.hb = "dump"]
    /\ UNCHANGED <<collector, net, fetch, diag>>

\* Line 116, the dump of write_machine_cache.
HbDump ==
    /\ agent.hb = "dump"
    /\ cache' = DumpCache(cache, agent.data)
    /\ agent' = [agent EXCEPT !.hb = "sleep"]
    /\ UNCHANGED <<collector, net, fetch, diag>>

\* The agent process is killed (or the machine reboots): its memory is
\* lost, the cache file stays as it is.
AgentCrash ==
    /\ agent.pc # "down"
    /\ agent' = [Off(agent) EXCEPT !.last = agent.last]
    /\ UNCHANGED <<collector, net, fetch, cache, diag>>

\* Lines 92-94: an audit request is served; procs is the process table
\* at that moment.
Audit(procs) ==
    /\ agent.pc = "serve"
    /\ agent.now + 2 <= MaxClock
    /\ agent' = [agent EXCEPT
                    !.now = @ + 2,
                    !.report = GenerateAuditReport(agent.machine_id, agent.data, agent.config,
                                                   procs, Clock(agent) + 1, Clock(agent) + 2)]
    /\ UNCHANGED <<collector, net, fetch, cache, diag>>

\* A day goes by with no agent process.
TimePasses ==
    /\ agent.pc = "down"
    /\ agent.days < MaxDays
    /\ agent' = [agent EXCEPT !.days = @ + 1]
    /\ UNCHANGED <<collector, net, fetch, cache, diag>>

HeartbeatStep == HbAppend \/ HbCap \/ HbOpen \/ HbDump

\* ------------------------------------------------------------ the diagnostic analyzer

\* Lines 387-543: the operator selects a registered host; the three
\* measurements come back and the report is printed.
Diagnose(k, ping, loc, rem) ==
    /\ proc = "running"
    /\ pc[CliThread] = "idle"
    /\ k \in 1 .. Len(hosts)
    /\ diag' = [done |-> TRUE, host |-> hosts[k], ping |-> ping, loc |-> loc, rem |-> rem,
                verdict |-> Verdict(ping, loc, rem)]
    /\ UNCHANGED <<collector, net, fetch, agent, cache>>

\* ------------------------------------------------------------ specifications

SaveStep(t) == SaveLock(t) \/ SaveOpen(t) \/ SaveDump(t) \/ SaveRename(t) \/ SaveUnlock(t)

\* A connection whose peer sends chunks of the set cs.
HandlerStep(h, cs) ==
    \/ Accept(h)
    \/ \E c \in cs : Recv(h, c)
    \/ AppendEvent(h)
    \/ Ack(h)
    \/ Continue(h)
    \/ SaveStep(h)

PruneStep == PruneLen \/ PruneComp \/ PruneStore \/ PruneCount

HostStep ==
    \/ \E raw \in HostInputs : AddHost(raw)
    \/ \E raw \in HostInputs : RemoveHost(raw)

\* What an event producer (the AuditNotifier client) sends.
ProducerChunks == {Bytes(<<JsonBoot>>), Bytes(<<JsonTrade>>), EmptyRead}

\* Ingestion: a connection that sends anything, the connection of a second
\* producer (of trade events), the operator pruning.
Next ==
    \/ HandlerStep("h1", Chunks)
    \/ HandlerStep("h2", {Bytes(<<JsonTrade>>), EmptyRead})
    \/ PruneStep
    \/ SaveStep(CliThread)

Spec == Init /\ [][Next]_vars

\* Durability: one connection, the operator's commands, crashes and restarts.
NextStore ==
    \/ HandlerStep("h1", ProducerChunks)
    \/ PruneStep
    \/ HostStep
    \/ SaveStep(CliThread)
    \/ Crash
    \/ Restart

SpecStore == Init /\ [][NextStore]_vars

\* The operator alone (no connection), on a store loaded from a snapshot
\* the server wrote earlier; the operator's commands are recorded.
StoredTrails == UNION {[1 .. n -> Events] : n \in 0 .. MaxTrails}

InitHosts ==
    /\ \E tr \in StoredTrails :
          LET store == [trails |-> tr, hosts |-> <<>>]
          IN  InitWith(store,
                       [p \in Paths |-> IF p = PickleLocation /\ tr # <<>>
                                        THEN File(Pickle(store)) ELSE Absent],
                       TRUE)
    /\ InitRemote

NextHosts ==
    \/ HostStep
    \/ PruneStep
    \/ SaveStep(CliThread)

SpecHosts == InitHosts /\ [][NextHosts]_vars

\* Queries: one connection that ingests events and asks for the project
\* list and the compact dumps, while the operator prunes.
QueryChunks ==
    EventChunks \cup NonObjectChunks \cup FilterChunks \cup {CmdProjects, CmdCompact, EmptyRead}

NextQuery ==
    \/ HandlerStep("h1", QueryChunks)
    \/ PruneStep
    \/ SaveStep(CliThread)

SpecQuery == Init /\ [][NextQuery]_vars

\* Fetching: a collector whose registry was loaded from its snapshot, the
\* machines at the registered addresses behaving in every way, the operator
\* fetching again and again.
HostLists == {<<>>, <<<<"a">>>>, <<<<"b">>>>, <<<<"a">>, <<"b">>>>, <<<<"b">>, <<"a">>>>}

InitFetch ==
    /\ \E hs \in HostLists :
          LET store == [trails |-> <<>>, hosts |-> hs]
          IN  InitWith(store,
                       [p \in Paths |-> IF p = PickleLocation /\ hs # <<>>
                                        THEN File(Pickle(store)) ELSE Absent],
                       FALSE)
    /\ net \in [HostNames -> RemoteKinds]
    /\ agent = AgentDown
    /\ cache = NoCache
    /\ diag = NoDiag

NextFetch == FetchStart \/ FetchLoop \/ FetchOpen \/ FetchHeader \/ FetchPayload

\* The operator's thread runs: a recv returns or times out.
SpecFetch == InitFetch /\ [][NextFetch]_vars /\ WF_vars(NextFetch)

\* The agent of one machine: started with any id or none, the operator
\* answering the prompt, the heartbeat, kills and restarts.
NextAgent ==
    \/ \E arg \in MachineIds \cup {NoId} : AgentStart(arg)
    \/ \E i \in MachineIds : AgentPrompt(i)
    \/ AgentWriteOpen
    \/ AgentWriteDump
    \/ \E found \in {"ok", "missing", "invalid"} : AgentConfig(found)
    \/ AgentBoot
    \/ AgentSpin
    \/ HeartbeatStep
    \/ AgentCrash

SpecAgent == Init /\ [][NextAgent]_vars

\* Diagnosing: a collector with registered hosts, the operator diagnosing
\* again and again, the measurements coming out in every way.
InitDiag ==
    /\ \E hs \in {hl \in HostLists : hl # <<>> /\ hl[1] = <<"a">>} :
          LET store == [trails |-> <<>>, hosts |-> hs]
          IN  InitWith(store,
                       [p \in Paths |-> IF p = PickleLocation THEN File(Pickle(store)) ELSE Absent],
                       FALSE)
    /\ InitRemote

NextDiag ==
    \E k \in 1 .. 2, ping \in PingResults, loc \in LocalStates, rem \in RemoteStates :
        Diagnose(k, ping, loc, rem)

SpecDiag == InitDiag /\ [][NextDiag]_vars

\* Recovery: a new process starts on what an earlier one (or the storage
\* medium) left: each of the snapshot and the temp file is absent, whole,
\* cut short, or whole with a damaged string.
Damaged(bytes) ==
    {[bytes EXCEPT ![i] = BadUtf8] : i \in {j \in 1 .. Len(bytes) : bytes[j].op \in {"EV", "STR"}}}

LeftFiles ==
    LET whole == {Pickle([trails |-> tr, hosts |-> hs]) :
                      tr \in StoredTrails, hs \in {<<>>, <<<<"a">>>>}}
    IN  {Absent} \cup {File(b) : b \in whole}
                 \cup {File(c) : c \in UNION {Prefixes(b) \cup Damaged(b) : b \in whole}}

\* No process yet, the snapshot c and the temp file t on disk.
InitCrashed(c, tmp) ==
    /\ proc = "crashed"
    /\ heap = [o \in ObjIds |-> <<>>]
    /\ cur = 0
    /\ hosts = <<>>
    /\ lock = "none"
    /\ fs = [p \in Paths |-> IF p = PickleLocation THEN c
                            ELSE IF p = TmpLocation THEN tmp ELSE Absent]
    /\ pc = [th \in Threads |-> IF th = CliThread THEN "idle" ELSE "closed"]
    /\ ref = [th \in Threads |-> NoRef]
    /\ chunk = [h \in Handlers |-> NoChunk]
    /\ reply = [h \in Handlers |-> NoReply]
    /\ cli = IdleCli
    /\ saved = EmptyStore
    /\ lastCommit = EmptyStore
    /\ track = FALSE
    /\ pre = NoPre
    /\ output = [h \in Handlers |-> NoOutput]
    /\ fetch = IdleFetch
    /\ InitRemote

InitRecover == \E c \in LeftFiles, t \in LeftFiles : InitCrashed(c, t)

NextRecover == Restart \/ Crash

SpecRecover == InitRecover /\ [][NextRecover]_vars

\* Upgrade: a new process starts on a snapshot an older version wrote (a
\* bare list of trails); the operator's commands, crashes and restarts.
InitLegacy == \E tr \in StoredTrails : InitCrashed(File(PickleLegacy(tr)), Absent)

NextLegacy ==
    \/ Restart
    \/ HostStep
    \/ PruneStep
    \/ SaveStep(CliThread)
    \/ Crash

SpecLegacy == InitLegacy /\ [][NextLegacy]_vars

\* Audits: the agent of a machine with any config file, started with an
\* id, restarted on later days, and asked for its report under every
\* process table.
InitReport ==
    /\ InitWith(EmptyStore, [p \in Paths |-> Absent], FALSE)
    /\ net = NoNet
    /\ \E conf \in Configs : agent = [AgentDown EXCEPT !.config_file = conf]
    /\ cache = NoCache
    /\ diag = NoDiag

NextReport ==
    \/ \E arg \in MachineIds : AgentStart(arg)
    \/ AgentWriteOpen
    \/ AgentWriteDump
    \/ AgentConfig("ok")
    \/ AgentBoot
    \/ AgentSpin
    \/ \E procs \in ProcTables : Audit(procs)
    \/ TimePasses
    \/ AgentCrash

SpecReport == InitReport /\ [][NextReport]_vars

\* Pruning: the operator alone, on a store loaded from a snapshot that
\* ingestion left (events, and JSON values that are no objects); the
\* operator's commands are recorded.
InitPrune ==
    /\ \E n \in 0 .. MaxTrails :
          \E tr \in [1 .. n -> Events \cup {EvNumber}], hs \in {<<>>, <<<<"a">>>>} :
              LET store == [trails |-> tr, hosts |-> hs]
              IN  InitWith(store,
                           [p \in Paths |-> IF p = PickleLocation /\ store # EmptyStore
                                            THEN File(Pickle(store)) ELSE Absent],
                           TRUE)
    /\ InitRemote

NextPrune == PruneStep \/ SaveStep(CliThread)

SpecPrune == InitPrune /\ [][NextPrune]_vars

\* Silent peers: the connection h1 is accepted and its peer never sends and
\* never closes; a producer connects on h2 and sends events.  The threads
\* are scheduled fairly: the listener and the producer's handler run.
NextSilent == Accept("h1") \/ HandlerStep("h2", EventChunks \cup {EmptyRead})

SpecSilent == Init /\ [][NextSilent]_vars /\ WF_vars(HandlerStep("h2", EventChunks \cup {EmptyRead}))

\* Control commands: a collector with one agent registered (a second
\* address refuses), a producer on h2, and on h1 a client that sends the
\* control commands; dump_audit_trails runs with its fetch.
ControlChunks == (CommandChunks \ {CmdDump}) \cup FilterChunks \cup {EmptyRead}

InitControl ==
    /\ LET store == [trails |-> <<>>, hosts |-> <<<<"a">>, <<"b">>>>]
       IN  InitWith(store,
                    [p \in Paths |-> IF p = PickleLocation THEN File(Pickle(store)) ELSE Absent],
                    FALSE)
    /\ net = [n \in HostNames |-> IF n = <<"a">> THEN "agent" ELSE "refused"]
    /\ agent = AgentDown
    /\ cache = NoCache
    /\ diag = NoDiag

NextControl ==
    \/ HandlerStep("h1", ControlChunks)
    \/ DumpStart("h1")
    \/ FetchLoop
    \/ FetchOpen
    \/ FetchHeader
    \/ FetchPayload
    \/ DumpEnd("h1")
    \/ HandlerStep("h2", EventChunks)

SpecControl == InitControl /\ [][NextControl]_vars

\* Start-up: the process as line 39 leaves it, the listener accepting, no
\* attribute of the store bound yet, a snapshot of an earlier run on disk
\* or none; two producers connect and send events.
InitStartup ==
    /\ \E tr \in {<<>>, <<EvTrade>>} :
          LET store == [trails |-> tr, hosts |-> <<>>]
          IN  /\ fs = [p \in Paths |-> IF p = PickleLocation /\ store # EmptyStore
                                       THEN File(Pickle(store)) ELSE Absent]
              /\ saved = store
              /\ lastCommit = store
    /\ proc = "running"
    /\ heap = [o \in ObjIds |-> <<>>]
    /\ cur = NoRef
    /\ hosts = <<>>
    /\ lock = "missing"
    /\ pc = [t \in Threads |-> IF t = CliThread THEN "c_lists" ELSE "closed"]
    /\ ref = [t \in Threads |-> NoRef]
    /\ chunk = [h \in Handlers |-> NoChunk]
    /\ reply = [h \in Handlers |-> NoReply]
    /\ cli = IdleCli
    /\ track = FALSE
    /\ pre = NoPre
    /\ output = [h \in Handlers |-> NoOutput]
    /\ fetch = IdleFetch
    /\ InitRemote

StartupStep(h) ==
    \/ HandlerStep(h, EventChunks \cup {EmptyRead})
    \/ \E c \in EventChunks \cup {EmptyRead} : RecvUnbuilt(h, c)
    \/ SaveNoLock(h)

NextStartup ==
    \/ ConstructLists
    \/ ConstructLoad
    \/ ConstructLock
    \/ StartupStep("h1")
    \/ StartupStep("h2")

SpecStartup == InitStartup /\ [][NextStartup]_vars

\* Arrival order: two producers on their connections, the operator adding
\* hosts, crashes and restarts; nothing prunes and nothing is removed.
NextOrder ==
    \/ HandlerStep("h1", EventChunks \cup {EmptyRead})
    \/ HandlerStep("h2", {Bytes(<<JsonTrade>>), EmptyRead})
    \/ AddHost(<<"a">>)
    \/ SaveStep(CliThread)
    \/ Crash
    \/ Restart

SpecOrder == Init /\ [][NextOrder]_vars

\* A dump while the operator edits the registry: a client asks for
\* dump_audit_trails again and again (its fetch runs in the handler's
\* thread), the operator adds and removes hosts.
InitDump ==
    /\ \E hs \in HostLists :
          LET store == [trails |-> <<>>, hosts |-> hs]
          IN  InitWith(store,
                       [p \in Paths |-> IF p = PickleLocation /\ hs # <<>>
                                        THEN File(Pickle(store)) ELSE Absent],
                       FALSE)
    /\ net = [n \in HostNames |-> IF n = <<"a">> THEN "agent" ELSE "refused"]
    /\ agent = AgentDown
    /\ cache = NoCache
    /\ diag = NoDiag

NextDump ==
    \/ Accept("h1")
    \/ DumpStart("h1")
    \/ FetchLoop
    \/ FetchOpen
    \/ FetchHeader
    \/ FetchPayload
    \/ DumpEnd("h1")
    \/ Continue("h1")
    \/ HostStep
    \/ SaveStep(CliThread)

SpecDump == InitDump /\ [][NextDump]_vars

\* ------------------------------------------------------------ claims

Range(seq) == {seq[i] : i \in 1 .. Len(seq)}

Count(x, seq) == Cardinality({i \in 1 .. Len(seq) : seq[i] = x})

InSave(t) == pc[t] \in {"s_lock", "s_open", "s_dump", "s_rename", "s_unlock"}

Memory == [trails |-> Trails, hosts |-> hosts]

\* C1: whatever step a crash interrupts save_audit_trails at, a load from
\* the files as they are now does not fail, leaves the canonical file as it
\* is, and yields the last committed {trails, hosts}: the old one up to the
\* rename, the new one from the rename on; and the canonical file holds
\* exactly the bytes of that commit.
C1_CrashSafe ==
    LET r == LoadAuditTrails(fs)
    IN  /\ ~r.raised
        /\ r.store = lastCommit
        /\ r.fs[PickleLocation] = fs[PickleLocation]
        /\ fs[PickleLocation].exists => fs[PickleLocation].bytes = Pickle(lastCommit)

\* C1's case: the process crashed in the middle of pickle.dump, leaving a
\* truncated temp file beside an earlier committed snapshot.
C1_Witness ==
    /\ proc = "crashed"
    /\ fs[TmpLocation].exists
    /\ fs[TmpLocation].bytes # <<>>
    /\ ~Unpickle(fs[TmpLocation].bytes).ok
    /\ fs[PickleLocation].exists
    /\ lastCommit.trails # <<>>
    /\ lastCommit.hosts # <<>>

\* C2: once save_audit_trails has renamed the snapshot into place, loading
\* it yields trails and hosts equal, element for element and in order, to
\* the payload that was saved.
C2_RoundTrip ==
    \A t \in Threads :
        pc[t] = "s_unlock" =>
            LET r == LoadAuditTrails(fs)
            IN  /\ ~r.raised
                /\ r.store.trails = saved.trails
                /\ r.store.hosts = saved.hosts

\* C2's case: a save just completed of a store with two trails and two hosts.
C2_Witness ==
    /\ \E t \in Threads : pc[t] = "s_unlock"
    /\ Len(saved.trails) = 2
    /\ Len(saved.hosts) = 2
    /\ saved.trails[1] # saved.trails[2]

Quiescent ==
    /\ proc = "running"
    /\ pc[CliThread] = "idle"
    /\ \A h \in Handlers : pc[h] \in {"closed", "await", "replied", "died"}

\* C3 as claimed: whenever no store operation is in progress, the snapshot
\* on disk holds the same trails and hosts as the store in memory.
C3_Orig == Quiescent => LoadAuditTrails(fs).store = Memory

\* A thread that has updated the store in memory and has not yet renamed
\* the snapshot holding that update into place.
InMutation(t) == pc[t] \in {"s_lock", "s_open", "s_dump", "s_rename"}

\* C4 as claimed: no two threads are at once between the start of a state
\* update and the end of its rename.
C4_Orig == \A t1, t2 \in Threads : t1 # t2 => ~(InMutation(t1) /\ InMutation(t2))

\* C5 as claimed: an event whose 'Data received' was sent is in the trails
\* in memory and in the snapshot (boot events, which prune removes, aside).
C5_Orig ==
    \A h \in Handlers :
        (pc[h] = "replied" /\ reply[h] = ReplyReceived) =>
            LET e == JsonLoads(chunk[h].text).value
            IN  IsBoot(e) \/ (e \in Range(Trails) /\ e \in Range(LoadAuditTrails(fs).store.trails))

\* The first two consecutive commands of the operator were add_host with
\* the same address after stripping, and the second has returned.
SecondAdd ==
    /\ track
    /\ pc[CliThread] = "idle"
    /\ cli.op = "add_host"
    /\ cli.report # "none"
    /\ pre.prevOp = "add_host"
    /\ Strip(pre.prevArg) = Strip(cli.arg)

AddedOnce ==
    /\ Count(Strip(cli.arg), hosts) = 1
    /\ cli.report = "already present"
    /\ hosts = pre.hosts
    /\ fs = pre.fs
    /\ ~cli.wrote

\* C6 as claimed, for every address.
C6_Orig == SecondAdd => AddedOnce

\* C6: for every address that is not empty after stripping, the second of
\* two add_host calls with it leaves exactly one entry, reports 'already
\* present', changes neither the hosts nor the files and writes nothing; an
\* address that strips to nothing is ignored by both calls.
C6_Idempotent ==
    SecondAdd =>
        IF Strip(cli.arg) # <<>>
        THEN AddedOnce
        ELSE /\ cli.report = "empty ignored"
             /\ hosts = pre.hosts
             /\ fs = pre.fs
             /\ ~cli.wrote

\* C6's case: 'a' added a second time, typed differently, to a registry
\* that also holds another host.
C6_Witness ==
    /\ SecondAdd
    /\ Strip(cli.arg) # <<>>
    /\ cli.arg # pre.prevArg
    /\ Len(hosts) >= 2

RemoveReturned ==
    /\ track
    /\ pc[CliThread] = "idle"
    /\ cli.op = "remove_host"
    /\ cli.report # "none"

\* C7: remove_host of an address that is not registered reports 'not found'
\* and leaves hosts, trails and files as they were; of a registered address
\* it removes that entry alone, keeps the others in order, leaves the trails
\* alone and the snapshot holds the new registry when it returns.
C7_RemoveHost ==
    RemoveReturned =>
        LET a == Strip(cli.arg)
        IN  IF a \notin Range(pre.hosts)
            THEN /\ cli.report = "not found"
                 /\ hosts = pre.hosts
                 /\ Trails = pre.trails
                 /\ fs = pre.fs
            ELSE /\ cli.report = "removed"
                 /\ hosts = SelectSeq(pre.hosts, LAMBDA x : x # a)
                 /\ Len(hosts) = Len(pre.hosts) - 1
                 /\ Trails = pre.trails
                 /\ LoadAuditTrails(fs).store = Memory

\* C7's case: the first of three registered hosts was removed.
C7_Witness ==
    /\ RemoveReturned
    /\ cli.report = "removed"
    /\ Len(pre.hosts) = 3
    /\ pre.hosts[1] = Strip(cli.arg)
    /\ Trails # <<>>

\* C8: the registry never holds an address twice, nor an empty address.
C8_NoDuplicateHosts ==
    /\ \A i, j \in 1 .. Len(hosts) : i # j => hosts[i] # hosts[j]
    /\ \A i \in 1 .. Len(hosts) : hosts[i] # <<>>

\* C8's case: a registry of two hosts in a process restarted after a crash
\* (the truncated temp file of the crash is still there).
C8_Witness ==
    /\ proc = "running"
    /\ Len(hosts) = 2
    /\ \A t \in Threads : ~InSave(t)
    /\ fs[TmpLocation].exists
    /\ Trails # <<>>

\* A chunk that is no command, not empty and not JSON.
IsMalformed(c) ==
    /\ c \notin CommandChunks
    /\ c # EmptyRead
    /\ c # NoChunk
    /\ ~c.utf8 \/ ~JsonLoads(c.text).ok

\* C9 as claimed: the handler answers every such chunk with the invalid-data
\* notice and leaves trails, hosts and files unchanged.
C9_Orig ==
    [][\A h \in Handlers :
          (pc[h] = "await" /\ pc'[h] # "await" /\ IsMalformed(chunk'[h])) =>
              /\ pc'[h] = "replied"
              /\ reply'[h] = ReplyInvalid
              /\ UNCHANGED <<heap, cur, hosts, fs>>]_vars

\* C10 as claimed: the handler leaves its loop only on an empty read, and
\* every other chunk is answered with one reply.
C10_Orig ==
    \A h \in Handlers :
        /\ pc[h] # "died"
        /\ (pc[h] = "closed" /\ chunk[h] # NoChunk) => chunk[h] = EmptyRead
        /\ pc[h] = "replied" => reply[h] # NoReply

\* The project_name values of the stored events.
StoredNames(trails) ==
    {trails[i].project_name :
        i \in {k \in 1 .. Len(trails) : IsMapping(trails[k]) /\ HasKey(trails[k], "project_name")}}

NoRepeats(seq) == \A i, j \in 1 .. Len(seq) : i # j => seq[i] # seq[j]

\* The handler h takes the chunk c off its connection in this step.
Handles(h, c) == pc[h] = "await" /\ pc'[h] # "await" /\ chunk'[h] = c

\* C11 as claimed: the reply to available_projects is, as a set and without
\* repetitions, exactly the set of project_name values of the events stored
\* when the request is handled.
C11_Orig ==
    [][\A h \in Handlers :
          Handles(h, CmdProjects) =>
              /\ pc'[h] = "replied"
              /\ reply'[h] = ReplyProjects
              /\ NoRepeats(output'[h].projects)
              /\ Range(output'[h].projects) = StoredNames(Trails)]_vars

\* C12 as claimed: the dump made for dump_compact_with_filter:<suffix> has a
\* block for a project exactly when the project has stored events and its
\* name is in the filter set parsed from the suffix, whatever that set is
\* (the empty one included).
C12_Orig ==
    [][\A h \in Handlers : \A c \in FilterChunks :
          Handles(h, c) =>
              /\ pc'[h] = "replied"
              /\ reply'[h] = ReplyCompactFilter
              /\ output'[h].made = "dump"
              /\ NoRepeats([i \in 1 .. Len(output'[h].dump) |-> output'[h].dump[i].project])
              /\ {output'[h].dump[i].project : i \in 1 .. Len(output'[h].dump)}
                     = {n \in Range(ParseFilters(c.text)) :
                           \E k \in 1 .. Len(Trails) :
                               IsMapping(Trails[k]) /\ ProjectOf(Trails[k]) = n}]_vars

\* What the machine at an address answers to an audit request when all
\* its bytes are read.
ExpectedAudit(host) ==
    IF net[host] = "agent" THEN [kind |-> "object", val |-> AgentId(host)]
    ELSE IF net[host] = "clock" THEN [kind |-> "number", val |-> 12]
    ELSE Sentinel

ExpectedPing(host) ==
    IF net[host] = "clock" THEN [error |-> FALSE, ts |-> 12] ELSE PingError

FetchResults ==
    fetch.pc = "done" =>
        /\ Len(fetch.results) = Len(hosts)
        /\ \A k \in 1 .. Len(hosts) :
              LET e == fetch.results[k]
              IN  /\ e.host = hosts[k]
                  /\ e.audit = IF <<e.host, "audit">> \in fetch.short THEN Sentinel
                                ELSE ExpectedAudit(e.host)
                  /\ e.ping = IF <<e.host, "ping">> \in fetch.short THEN PingError
                               ELSE ExpectedPing(e.host)

\* C13: fetch_remote_audits, once called, always returns, with one entry
\* per registered host in registry order; the entry of a host that fails
\* (refused, silent, short header, zero length, truncated, bad payload)
\* holds the error value, and the entry of every other host holds what
\* that host answers, whatever the other hosts do.
C13_FetchCompletes ==
    /\ []FetchResults
    /\ (fetch.pc \notin {"idle", "done"}) ~> (fetch.pc = "done")

\* C13's case: two hosts, the first fails and the second is a running
\* agent whose report is in the result.
C13_Witness ==
    /\ fetch.pc = "done"
    /\ Len(fetch.results) = 2
    /\ net[hosts[1]] \in {"refused", "silent", "truncated", "bad_json"}
    /\ fetch.results[1].audit = Sentinel
    /\ net[hosts[2]] = "agent"
    /\ fetch.results[2].audit = [kind |-> "object", val |-> AgentId(hosts[2])]

\* C14 as claimed: from a running agent, which sends the 4-byte length and
\* the whole report, _fetch_from_host returns that report however the
\* transport cuts the bytes into chunks.
C14_Orig ==
    \A k \in 1 .. Len(fetch.results) :
        net[fetch.results[k].host] = "agent" =>
            fetch.results[k].audit = [kind |-> "object", val |-> AgentId(fetch.results[k].host)]

\* The liveness window in the agent's memory.
Window == agent.data.last_alive

\* C15: in every state of the heartbeat loop (the moment between the
\* append and the cap test apart) last_alive is a sequence of timestamps
\* of length at most the cap.
C15_Orig ==
    (agent.hb # "appended" /\ Window.kind # "missing") =>
        (Window.kind = "list" /\ Len(Window.list) <= AliveCap)

\* C16: when the append made the window longer than the cap, the cap step
\* drops exactly the oldest sample: the window is then the most recent
\* samples up to the cap, in order, the new timestamp last.
C16_Orig ==
    [][(agent.hb = "appended" /\ agent'.hb = "open" /\ Len(Window.list) > AliveCap) =>
          agent'.data.last_alive = AliveList(Tail(Window.list))]_vars

\* A start (from the shell or from the prompt) that got past the choice of
\* the id.
StartSucceeds == agent.pc \in {"down", "prompt"} /\ agent'.pc \in {"config", "id_open"}

\* C17: once a write of the cache completed, every complete cache holds
\* the id of that first write and the running agent uses it; a start that
\* finds a cache runs under the stored id whatever id the caller gave and
\* leaves the file alone; a first start (no cache) with no id fails, and
\* no cache is written while the operator has not supplied one.
C17_IdWrittenOnce ==
    /\ [](/\ cache.kind = "whole" => (cache.first # NoId /\ cache.data.machine_id = cache.first)
          /\ (cache.first # NoId /\ agent.pc \in {"config", "boot", "boot_open", "boot_dump", "ready", "serve"})
                => agent.machine_id = cache.first
          /\ (agent.pc = "prompt" /\ agent.last = "no_id") => cache.kind = "absent")
    /\ [][/\ (StartSucceeds /\ cache.kind = "whole")
                => (agent'.machine_id = cache.data.machine_id /\ agent'.pc = "config" /\ cache' = cache)
          /\ (agent.pc = "down" /\ cache.kind = "absent" /\ agent'.pc # "down" /\ agent'.arg = NoId)
                => (agent'.pc = "prompt" /\ agent'.last = "no_id" /\ cache' = cache)]_vars

\* A restarted agent, after heartbeats were persisted, was given another
\* id than the stored one.
C17_Witness ==
    /\ agent.pc = "config"
    /\ agent.arg # NoId
    /\ agent.arg # agent.machine_id
    /\ cache.kind = "whole"
    /\ cache.first = agent.machine_id
    /\ cache.data.last_alive.kind = "list"
    /\ Len(cache.data.boot_times) >= 1

\* Neither side is in the 'installed but failed' state.
NoFault == ~LocalNetworkFault(diag.loc) /\ ~RemoteNetworkFault(diag.rem)

\* C18: a diagnosis of a reachable host with a round trip of 150 ms or
\* more (150 included) and no side installed-but-failed gives the latency
\* verdict, whatever the bandwidth figures.
C18_Orig ==
    (diag.done /\ ~diag.ping.error /\ diag.ping.rtt_ms >= HighRtt /\ NoFault) =>
        diag.verdict = "latency"

\* Both sides produced bandwidth numbers and no earlier rule applies
\* (reachable, no fault, round trip below 150 ms).
BothMeasured ==
    /\ diag.done
    /\ ~diag.ping.error
    /\ NoFault
    /\ diag.ping.rtt_ms < HighRtt
    /\ LocalHasData(diag.loc)
    /\ RemoteHasData(diag.rem)

\* C19: with both sides measured, a download difference below 20 Mbps
\* gives a 'similar' verdict, and a difference of 20 Mbps or more blames
\* the side with the lower download.
C19_Orig ==
    BothMeasured =>
        LET l == Download(diag.loc.result)
            r == Download(diag.rem.result)
        IN  /\ Abs(l - r) < SpeedDiffThreshold => diag.verdict \in {"similar_slow", "similar_adequate"}
            /\ l - r >= SpeedDiffThreshold => diag.verdict = "blame_remote"
            /\ r - l >= SpeedDiffThreshold => diag.verdict = "blame_local"

\* A new process finds a snapshot that does not deserialize and a temp
\* file that does.
NeedsRecovery ==
    /\ proc = "crashed"
    /\ fs[PickleLocation].exists
    /\ ~Unpickle(fs[PickleLocation].bytes).ok
    /\ fs[TmpLocation].exists
    /\ Unpickle(fs[TmpLocation].bytes).ok

\* C20: the load of such a start completes without error, with the
\* in-memory trails and hosts equal to the temp file's contents, the temp
\* file promoted to the canonical path and no temp file left.
C20_Orig ==
    [][(NeedsRecovery /\ proc' # proc) =>
          /\ proc' = "running"
          /\ [trails |-> heap'[cur'], hosts |-> hosts'] = FromData(Unpickle(fs[TmpLocation].bytes))
          /\ fs'[PickleLocation] = fs[TmpLocation]
          /\ ~fs'[TmpLocation].exists]_vars

\* A new process finds a snapshot that does not deserialize and nothing
\* to recover it from: no temp file, or one that does not deserialize
\* either.
Unrecoverable ==
    /\ proc = "crashed"
    /\ fs[PickleLocation].exists
    /\ ~Unpickle(fs[PickleLocation].bytes).ok
    /\ (fs[TmpLocation].exists => ~Unpickle(fs[TmpLocation].bytes).ok)

\* C21: the load of such a start ends by raising, and the bytes of the
\* corrupt snapshot are then on disk under the .corrupt name.
C21_Orig ==
    [][(Unrecoverable /\ proc' # proc) =>
          /\ proc' = "failed"
          /\ fs'[CorruptLocation] = fs[PickleLocation]]_vars

\* What the canonical snapshot deserializes to.
OnDisk == Unpickle(fs[PickleLocation].bytes)

ReadsUnrecognizedReply ==
    /\ fetch.pc \in {"header", "payload"}
    /\ net[fetch.host] = "agent"
    /\ RequestOf(fetch.phase) # "audit"

\* C23: that reply is 4 bytes which, read as a big-endian length, denote
\* 0, so the collector never gets past its length check into the loop
\* that reads a payload.
C23_Orig ==
    ReadsUnrecognizedReply =>
        /\ fetch.pc = "header"
        /\ Len(fetch.wire) = HeaderLen
        /\ FromBytes(fetch.wire) = 0

\* C24: when fetch_remote_audits has returned, the ping of every host at
\* which an agent runs holds a remote timestamp and a round trip, not the
\* error marker.
C24_Orig ==
    fetch.pc = "done" =>
        \A k \in 1 .. Len(fetch.results) :
            net[fetch.results[k].host] = "agent" => ~fetch.results[k].ping.error

\* C25: while the agent process serves, its heartbeat thread is running
\* (asleep, or between its append and the end of its write): it has not
\* ended, so another timestamp will be appended and persisted.
C25_Orig ==
    agent.pc = "serve" => agent.hb \in {"sleep", "appended", "open", "dump"}

\* The processes of the scanned table whose command line contains path.
Matching(path) ==
    {i \in 1 .. Len(agent.report.procs) : Contains(agent.report.procs[i].cmd, path)}

\* The report's entries for a key.
EntriesOf(key) ==
    {k \in 1 .. Len(agent.report.active_processes) : agent.report.active_processes[k].key = key}

\* C26: in a report, an entry whose filepath several processes contain is
\* running with the pid of the first of them in the table's order.
C26_Orig ==
    agent.report.made =>
        \A c \in 1 .. Len(agent.config) :
            Cardinality(Matching(agent.config[c].filepath)) >= 2 =>
                \E k \in EntriesOf(agent.config[c].key) :
                    LET first == CHOOSE i \in Matching(agent.config[c].filepath) :
                                     \A j \in Matching(agent.config[c].filepath) : i <= j
                    IN  /\ agent.report.active_processes[k].status = "running"
                        /\ agent.report.active_processes[k].pid = agent.report.procs[first].pid

\* C27: a report's active_processes has one entry for each key of the
\* config and no other; an entry is running with a pid exactly when some
\* process's command line contains its filepath, and otherwise not
\* running with no pid.
C27_Orig ==
    agent.report.made =>
        /\ Len(agent.report.active_processes) = Len(agent.config)
        /\ \A c \in 1 .. Len(agent.config) :
              \E k \in EntriesOf(agent.config[c].key) :
                  LET e == agent.report.active_processes[k]
                  IN  IF Matching(agent.config[c].filepath) # {}
                      THEN e.status = "running" /\ e.pid # NoPid
                      ELSE e.status = "not running" /\ e.pid = NoPid

\* C28: a report's last_24h_boots is the number of recorded boot times
\* within the 24 hours before its current_time.
C28_Orig ==
    agent.report.made =>
        agent.report.last_24h_boots =
            Cardinality({i \in 1 .. Len(agent.data.boot_times) :
                            agent.data.boot_times[i] > agent.report.current_time - DaySeconds})

\* Speedtest is installed on the local machine and gave no result.
LocalFailed == diag.loc.installed /\ ~diag.loc.result.some

\* The remote host says speedtest is installed and sends no result.
RemoteFailed == ~diag.rem.error /\ diag.rem.installed /\ ~diag.rem.result.some

\* C29: in a diagnosis of a reachable host, both sides installed-but-
\* failed give the verdict of a network fault on both sides, and exactly
\* one such side is blamed alone, whatever the round trip and whatever the
\* other side measured.
C29_FaultsFirst ==
    (diag.done /\ ~diag.ping.error) =>
        /\ (LocalFailed /\ RemoteFailed) => diag.verdict = "both_faults"
        /\ (LocalFailed /\ ~RemoteFailed) => diag.verdict = "local_fault"
        /\ (~LocalFailed /\ RemoteFailed) => diag.verdict = "remote_fault"

\* The remote host failed, with a round trip of 200 ms and a local
\* download of 80 Mbps: the remote host is blamed.
C29_Witness ==
    /\ diag.done
    /\ ~diag.ping.error
    /\ diag.ping.rtt_ms = 200
    /\ RemoteFailed
    /\ LocalHasData(diag.loc)
    /\ Download(diag.loc.result) = 80
    /\ diag.verdict = "remote_fault"

PruneReturned ==
    /\ track
    /\ pc[CliThread] = "idle"
    /\ cli.op = "prune"
    /\ cli.report # "none"

\* The stored values that are no boot events, in their order.
NotBoots(trails) ==
    SelectSeq(trails, LAMBDA t : ~(IsMapping(t) /\ HasKey(t, "event_type") /\ t.event_type = "boot"))

\* C30: prune returns, and when it has, the trails are the stored values
\* that were no boot events, each once and in their order, the hosts are
\* as before, and the snapshot was rewritten (and holds the store) exactly
\* when an event was removed.
C30_Orig ==
    /\ pc[CliThread] # "died"
    /\ PruneReturned =>
          /\ Trails = NotBoots(pre.trails)
          /\ hosts = pre.hosts
          /\ IF Len(NotBoots(pre.trails)) < Len(pre.trails)
             THEN cli.wrote /\ LoadAuditTrails(fs).store = [trails |-> Trails, hosts |-> hosts]
             ELSE ~cli.wrote /\ fs = pre.fs

\* The connection h1 is open and its peer has sent nothing.
Silent == pc["h1"] = "await" /\ chunk["h1"] = NoChunk

Received(h) == JsonLoads(chunk[h].text).value

\* C31: with a silent connection open or not, a producer that connects is
\* accepted, and an event it sends is in the end appended, persisted in the
\* canonical snapshot and acknowledged.
C31_SilentPeers ==
    /\ (pc["h2"] = "closed") ~> (pc["h2"] = "await")
    /\ \A c \in EventChunks :
          (pc["h2"] = "append" /\ chunk["h2"] = c) ~>
              /\ reply["h2"] = ReplyReceived
              /\ chunk["h2"] = c
              /\ InSeq(Received("h2"), Trails)
              /\ InSeq(Received("h2"), lastCommit.trails)
              /\ LoadAuditTrails(fs).store = lastCommit

C31_Witness ==
    /\ Silent
    /\ reply["h2"] = ReplyReceived
    /\ InSeq(Received("h2"), lastCommit.trails)

ReadCommands == CommandChunks \cup FilterChunks

\* The handler h takes a step of the handling of a control command: it
\* receives one, or is in the fetch of dump_audit_trails, or writes the dump.
Handling(h) ==
    \/ \E c \in ReadCommands : Handles(h, c)
    \/ pc[h] = "fetch" /\ fetch.by = h /\ fetch' # fetch
    \/ pc[h] = "dumped" /\ pc'[h] # "dumped"

\* C32: no step of the handling of dump_audit_trails, dump_audit_trails_all,
\* dump_compact, dump_compact_with_filter or available_projects changes the
\* trails in memory, the hosts or the snapshot files.
C32_ReadOnly ==
    [][\A h \in Handlers :
          Handling(h) =>
              /\ Trails' = Trails
              /\ heap' = heap
              /\ hosts' = hosts
              /\ fs' = fs
              /\ lastCommit' = lastCommit]_vars

\* A dump with its fetch was made of a store that holds events out of
\* timestamp order.
C32_Witness ==
    /\ pc["h1"] = "replied"
    /\ reply["h1"] = ReplyDumped
    /\ fetch.results # <<>>
    /\ Len(Trails) >= 2
    /\ Trails # SortedByTimestamp(Trails)

Constructing == pc[CliThread] \in {"c_lists", "c_load", "c_lock"}

\* The handler h has appended the event it received and not yet gone back
\* to recv.
Appended(h) ==
    /\ chunk[h] \in EventChunks
    /\ pc[h] \in {"s_lock", "s_open", "s_dump", "s_rename", "s_unlock", "ack", "replied"}

\* C33 as claimed: while the constructor runs no handler is at the store;
\* a handler that received an event does not die of it, the event it
\* appended stays in the trails, and once the handler has replied the reply
\* is the acknowledgement and the event is in the committed snapshot.
C33_Orig ==
    \A h \in Handlers :
        /\ Constructing => pc[h] \in {"closed", "await"}
        /\ chunk[h] \in EventChunks => pc[h] # "died"
        /\ Appended(h) => InSeq(Received(h), Trails)
        /\ (chunk[h] \in EventChunks /\ pc[h] = "replied") =>
              /\ reply[h] = ReplyReceived
              /\ InSeq(Received(h), lastCommit.trails)

\* C34 as claimed: every stored element is a mapping, in memory and in the
\* committed snapshot, and no reporting command dies on a stored element.
C34_Orig ==
    /\ \A i \in 1 .. Len(Trails) : IsMapping(Trails[i])
    /\ \A i \in 1 .. Len(lastCommit.trails) : IsMapping(lastCommit.trails[i])
    /\ \A h \in Handlers :
          chunk[h] \in ({CmdProjects, CmdCompact} \cup FilterChunks) => pc[h] # "died"

IsPrefix(a, b) == Len(a) <= Len(b) /\ SubSeq(b, 1, Len(a)) = a

\* C35: with handlers running concurrently and nothing pruned or removed,
\* each snapshot renamed into place holds the trails of the one before as a
\* prefix, the canonical file read back says the same, and while the
\* process runs the trails in memory only grow at the end.
C35_PrefixOrder ==
    [][/\ IsPrefix(lastCommit.trails, lastCommit'.trails)
       /\ IsPrefix(LoadAuditTrails(fs).store.trails, LoadAuditTrails(fs').store.trails)
       /\ (proc = "running" /\ proc' = "running") => IsPrefix(Trails, Trails')]_vars

\* Events of both connections were committed and acknowledged, the later
\* one differing from the earlier.
C35_Witness ==
    /\ reply["h1"] = ReplyReceived
    /\ reply["h2"] = ReplyReceived
    /\ Len(lastCommit.trails) >= 2
    /\ lastCommit.trails[1] # lastCommit.trails[2]
    /\ LoadAuditTrails(fs).store = lastCommit

\* The verdicts the bottleneck analysis prints.
Verdicts ==
    {"unreachable", "both_faults", "local_fault", "remote_fault", "latency",
     "similar_slow", "similar_adequate", "blame_remote", "blame_local",
     "blame_remote_unmeasured", "blame_local_unmeasured", "inconclusive"}

\* C36 as claimed: every diagnosis made, whatever the ping, the local state
\* and the remote state were, ends with one verdict.
C36_Orig == diag.done => diag.verdict \in Verdicts

\* main constructs the agent in this step.
Starts == agent.pc = "down" /\ agent' # agent

\* C37 as claimed: whenever the agent starts after a cache was written
\* once, whatever a kill interrupted since, the cache loads and the agent
\* runs under the machine_id first written, with the boot times the cache
\* holds.
C37_Orig ==
    [][(Starts /\ cache.first # NoId) =>
          /\ agent'.last = "ok"
          /\ agent'.pc = "config"
          /\ agent'.machine_id = cache.first
          /\ agent'.data.boot_times = cache.data.boot_times]_vars

\* The hosts fetch_remote_audits has stored a result for.
ResultHosts == {fetch.results[k].host : k \in 1 .. Len(fetch.results)}

\* C38 as claimed: a fetch that has returned holds one result for each host
\* that was registered when it was called, and for no other.
C38_Orig ==
    fetch.pc = "done" =>
        /\ ResultHosts = Range(fetch.called)
        /\ Len(fetch.results) = Len(fetch.called)

====
